---------------------------- MODULE Spec2Model ----------------------------
(***************************************************************************)
(* Model of the mock-trading engine of pbfortune_Long (src/mock_trade):     *)
(* the virtual account, the signal engine, the persisted trade log and the *)
(* monitor that drives them.                                               *)
(*                                                                         *)
(* Money and prices are integers counted in units of 1/2000 dollar, so     *)
(* that price * quantity * COMMISSION_RATE is an integer for every price   *)
(* that is a multiple of half a dollar.  The code computes in binary       *)
(* floating point; the model computes the same expressions exactly.        *)
(* An average price is a quotient and is kept as a reduced fraction.       *)
(***************************************************************************)
EXTENDS Integers, Sequences, FiniteSets, TLC

VARIABLES
    account,    \* monitor.account: the VirtualAccount
    strategy,   \* monitor.strategy.conditions, with its insertion order
    trade_db,   \* the persisted tables of TradeDatabase
    ticks,      \* number of ticks begun since the model started
    restores,   \* number of reconstructions run since the model started
    world,      \* which inputs the environment draws from
    call,       \* the last direct call made on the account or the engine
    ret,        \* what that call returned
    logged,     \* which branch of the callee wrote the last logger line
    is_running, \* monitor.is_running
    scheduler,  \* monitor.scheduler: its registered jobs and whether it runs
    in_tick,    \* the threads that are executing monitor_task
    timestamp,  \* the clock the store reads, and the timestamp column
    pc          \* where each thread is inside monitor_task, with its locals

vars == <<account, strategy, trade_db, ticks, restores, world, call, ret,
          logged, is_running, scheduler, in_tick, timestamp, pc>>

-----------------------------------------------------------------------------
(* Units and program constants *)

\* Optional[float] = None
None == -1

\* one dollar, in model units
Dollar == 2 * 1000
HalfDollar == Dollar \div 2
Cent == Dollar \div 100

\* config.py
INITIAL_CAPITAL == 100000 * Dollar
\* MAX_POSITION_SIZE = 0.1 = 1 / MAX_POSITION_DEN
MAX_POSITION_DEN == 10
\* COMMISSION_RATE = 0.001 = 1 / COMMISSION_DEN
COMMISSION_DEN == 1000
\* TradingStrategy.PRICE_TOLERANCE = 0.01 = 1 / TOLERANCE_DEN
TOLERANCE_DEN == 100

Symbols == {"AAPL", "MSFT"}

-----------------------------------------------------------------------------
(* Exact quotients *)

RECURSIVE GCD(_, _)
GCD(a, b) == IF b = 0 THEN a ELSE GCD(b, a % b)

\* the quotient n / d (n >= 0, d > 0) as a reduced fraction
Rat(n, d) == LET g == GCD(n, d) IN [n |-> n \div g, d |-> d \div g]

RatOfInt(i) == [n |-> i, d |-> 1]

RatEq(r, n, d) == r.n * d = n * r.d

RatAdd(r, q) == Rat((r.n * q.d) + (q.n * r.d), r.d * q.d)
RatSub(r, q) == Rat((r.n * q.d) - (q.n * r.d), r.d * q.d)
RatMulInt(r, i) == Rat(r.n * i, r.d)
RatDivInt(r, i) == Rat(r.n, r.d * i)

\* the value of a quotient that is a whole number
Whole(r) == r.n \div r.d

-----------------------------------------------------------------------------
(* virtual_account.py *)

Position(symbol, quantity, avg_price, current_price) ==
    [symbol |-> symbol, quantity |-> quantity, avg_price |-> avg_price,
     current_price |-> current_price]

Trade(trade_id, symbol, action, quantity, price, commission) ==
    [trade_id |-> trade_id, symbol |-> symbol, action |-> action,
     quantity |-> quantity, price |-> price, commission |-> commission]

VirtualAccount(initial_capital) ==
    [initial_capital |-> initial_capital,
     cash |-> initial_capital,
     positions |-> <<>>,
     trades |-> <<>>,
     next_trade_id |-> 1]

\* Position.market_value
market_value(pos) == pos.quantity * pos.current_price

RECURSIVE SumMarketValue(_, _)
SumMarketValue(positions, S) ==
    IF S = {} THEN 0
    ELSE LET s == CHOOSE x \in S : TRUE
         IN market_value(positions[s]) + SumMarketValue(positions, S \ {s})

total_market_value(acct) ==
    SumMarketValue(acct.positions, DOMAIN acct.positions)

total_equity(acct) == acct.cash + total_market_value(acct)

total_pnl(acct) == total_equity(acct) - acct.initial_capital

get_position(acct, symbol) ==
    IF symbol \in DOMAIN acct.positions THEN acct.positions[symbol] ELSE None

\* a mapping with one key added or overwritten / one key removed (f @@ <<>>
\* is f, enumerated)
Put(f, k, v) == (k :> v) @@ f
Del(f, k) == [x \in (DOMAIN f) \ {k} |-> f[x]] @@ <<>>

\* buy: total_cost > self.cash, ignoring the commission
buy_rejects_NoCommission(acct, quantity, price, commission) ==
    quantity * price > acct.cash

\* buy: the affordability test
buy_rejects(acct, quantity, price, commission) ==
    (quantity * price) + commission > acct.cash

\* buy: an existing position replaced instead of merged
buy_position_Replace(acct, symbol, quantity, price) ==
    Position(symbol, quantity, RatOfInt(price), price)

\* buy: the position after the purchase
buy_position(acct, symbol, quantity, price) ==
    IF symbol \in DOMAIN acct.positions
    THEN LET pos == acct.positions[symbol]
             total_qty == pos.quantity + quantity
             \* (pos.quantity * pos.avg_price) + (quantity * price), over avg's d
             total_cost_basis_n ==
                 (pos.quantity * pos.avg_price.n) + (quantity * price * pos.avg_price.d)
         IN [pos EXCEPT !.quantity = total_qty,
                        !.avg_price = Rat(total_cost_basis_n,
                                          pos.avg_price.d * total_qty)]
    ELSE Position(symbol, quantity, RatOfInt(price), price)

buy(acct, symbol, quantity, price, commission) ==
    LET total_cost == (quantity * price) + commission
    IN IF buy_rejects(acct, quantity, price, commission)
       THEN [ok |-> FALSE, acct |-> acct]
       ELSE [ok |-> TRUE,
             acct |-> [acct EXCEPT
                 !.cash = acct.cash - total_cost,
                 !.positions = Put(acct.positions, symbol,
                                   buy_position(acct, symbol, quantity, price)),
                 !.trades = Append(acct.trades,
                                   Trade(acct.next_trade_id, symbol, "BUY",
                                         quantity, price, commission)),
                 !.next_trade_id = acct.next_trade_id + 1]]

\* sell: the position is kept when its quantity reaches 0
sell_positions_KeepEmpty(acct, symbol, quantity) ==
    [acct.positions EXCEPT ![symbol].quantity = @ - quantity]

\* sell: the positions mapping after the sale
sell_positions(acct, symbol, quantity) ==
    IF acct.positions[symbol].quantity - quantity = 0
    THEN Del(acct.positions, symbol)
    ELSE [acct.positions EXCEPT ![symbol].quantity = @ - quantity]

\* sell: the quantity held is not compared with the quantity sold
sell_Oversold(acct, symbol, quantity, price, commission) ==
    IF symbol \notin DOMAIN acct.positions
    THEN [ok |-> FALSE, acct |-> acct]
    ELSE [ok |-> TRUE,
          acct |-> [acct EXCEPT
              !.cash = acct.cash + ((quantity * price) - commission),
              !.positions = sell_positions(acct, symbol, quantity),
              !.trades = Append(acct.trades,
                                Trade(acct.next_trade_id, symbol, "SELL",
                                      quantity, price, commission)),
              !.next_trade_id = acct.next_trade_id + 1]]

sell(acct, symbol, quantity, price, commission) ==
    IF symbol \notin DOMAIN acct.positions
    THEN [ok |-> FALSE, acct |-> acct]
    ELSE IF acct.positions[symbol].quantity < quantity
    THEN [ok |-> FALSE, acct |-> acct]
    ELSE LET proceeds == (quantity * price) - commission
         IN [ok |-> TRUE,
             acct |-> [acct EXCEPT
                 !.cash = acct.cash + proceeds,
                 !.positions = sell_positions(acct, symbol, quantity),
                 !.trades = Append(acct.trades,
                                   Trade(acct.next_trade_id, symbol, "SELL",
                                         quantity, price, commission)),
                 !.next_trade_id = acct.next_trade_id + 1]]

\* update_prices: prices maps a symbol to a price or to None (absent)
update_prices(acct, prices) ==
    [acct EXCEPT !.positions =
        [s \in DOMAIN acct.positions |->
            IF prices[s] # None
            THEN [acct.positions[s] EXCEPT !.current_price = prices[s]]
            ELSE acct.positions[s]] @@ <<>>]

-----------------------------------------------------------------------------
(* trading_strategy.py *)

TradingCondition(symbol, entry_price, stop_loss, take_profit, quantity) ==
    [symbol |-> symbol, entry_price |-> entry_price, stop_loss |-> stop_loss,
     take_profit |-> take_profit, quantity |-> quantity]

\* the dict self.conditions: its keys in insertion order, and its values
TradingStrategy == [keys |-> <<>>, conditions |-> <<>>]

InSeq(x, q) == \E i \in 1..Len(q) : q[i] = x

add_condition(strat, condition) ==
    [keys |-> IF InSeq(condition.symbol, strat.keys) THEN strat.keys
              ELSE Append(strat.keys, condition.symbol),
     conditions |-> Put(strat.conditions, condition.symbol, condition)]

\* lower <= current_price <= upper with the upper edge excluded
in_band_OpenAbove(threshold, current_price) ==
    /\ threshold * (TOLERANCE_DEN - 1) <= current_price * TOLERANCE_DEN
    /\ current_price * TOLERANCE_DEN < threshold * (TOLERANCE_DEN + 1)

\* threshold * (1 - PRICE_TOLERANCE) <= current_price
\*                                   <= threshold * (1 + PRICE_TOLERANCE)
in_band(threshold, current_price) ==
    /\ threshold * (TOLERANCE_DEN - 1) <= current_price * TOLERANCE_DEN
    /\ current_price * TOLERANCE_DEN <= threshold * (TOLERANCE_DEN + 1)

\* check_entry_signal without the test of the quantity held
check_entry_signal_Pyramiding(strat, symbol, current_price) ==
    IF symbol \notin DOMAIN strat.conditions THEN "None"
    ELSE IF strat.conditions[symbol].entry_price = None THEN "None"
    ELSE IF in_band(strat.conditions[symbol].entry_price, current_price) THEN "BUY"
    ELSE "None"

check_entry_signal(strat, symbol, current_price) ==
    IF symbol \notin DOMAIN strat.conditions THEN "None"
    ELSE LET condition == strat.conditions[symbol]
         IN IF condition.quantity > 0 THEN "None"
            ELSE IF condition.entry_price = None THEN "None"
            ELSE IF in_band(condition.entry_price, current_price) THEN "BUY"
            ELSE "None"

\* `if condition.stop_loss:` is false for None and for 0
Truthy(x) == x # None /\ x # 0

\* the take-profit band tested before the stop-loss band
exit_trigger_TakeProfitFirst(strat, symbol, current_price) ==
    IF symbol \notin DOMAIN strat.conditions THEN "none"
    ELSE LET condition == strat.conditions[symbol]
         IN IF condition.quantity = 0 THEN "none"
            ELSE IF /\ Truthy(condition.take_profit)
                    /\ in_band(condition.take_profit, current_price)
                 THEN "TAKE PROFIT"
            ELSE IF /\ Truthy(condition.stop_loss)
                    /\ in_band(condition.stop_loss, current_price)
                 THEN "STOP LOSS"
            ELSE "none"

\* the branch of check_exit_signal that returns, named by the line it logs
exit_trigger(strat, symbol, current_price) ==
    IF symbol \notin DOMAIN strat.conditions THEN "none"
    ELSE LET condition == strat.conditions[symbol]
         IN IF condition.quantity = 0 THEN "none"
            ELSE IF /\ Truthy(condition.stop_loss)
                    /\ in_band(condition.stop_loss, current_price)
                 THEN "STOP LOSS"
            ELSE IF /\ Truthy(condition.take_profit)
                    /\ in_band(condition.take_profit, current_price)
                 THEN "TAKE PROFIT"
            ELSE "none"

check_exit_signal(strat, symbol, current_price) ==
    IF exit_trigger(strat, symbol, current_price) = "none" THEN "None" ELSE "SELL"

\* update_position that leaves the condition as it was
update_position_Ignored(strat, symbol, quantity) == strat

update_position(strat, symbol, quantity) ==
    IF symbol \in DOMAIN strat.conditions
    THEN [strat EXCEPT !.conditions[symbol].quantity = quantity]
    ELSE strat

get_all_symbols(strat) == strat.keys

-----------------------------------------------------------------------------
(* trade_database.py: the four tables, each a sequence of rows in insertion *)
(* order; the AUTOINCREMENT id of a row is its place in the sequence.  The  *)
(* timestamp column is not kept: rows are taken to be read back in the      *)
(* order of their ids.                                                      *)

TradeDatabase == [trades |-> <<>>, account_snapshots |-> <<>>,
                  position_snapshots |-> <<>>, monitor_logs |-> <<>>]

\* the notes column of a row saved without notes
NoNotes == [n |-> 0, d |-> 0]

\* save_trade: the newest row is written over instead of a row being added
save_trade_Overwrite(db, symbol, action, quantity, price, commission, notes) ==
    LET n == IF Len(db.trades) = 0 THEN 1 ELSE Len(db.trades)
        row == [id |-> n, symbol |-> symbol, action |-> action,
                quantity |-> quantity, price |-> price,
                commission |-> commission, notes |-> notes]
    IN [db EXCEPT !.trades = IF Len(@) = 0 THEN <<row>>
                             ELSE [@ EXCEPT ![n] = row]]

save_trade(db, symbol, action, quantity, price, commission, notes) ==
    [db EXCEPT !.trades = Append(@,
        [id |-> Len(db.trades) + 1, symbol |-> symbol, action |-> action,
         quantity |-> quantity, price |-> price, commission |-> commission,
         notes |-> notes])]

Min(a, b) == IF a < b THEN a ELSE b

\* SELECT * FROM trades ORDER BY timestamp DESC LIMIT ?
get_all_trades(db, limit) ==
    LET n == Len(db.trades)
    IN [i \in 1..Min(limit, n) |-> db.trades[n + 1 - i]]

save_position_snapshot(db, pos) ==
    [db EXCEPT !.position_snapshots = Append(@,
        [id |-> Len(db.position_snapshots) + 1, symbol |-> pos.symbol,
         quantity |-> pos.quantity, avg_price |-> pos.avg_price,
         current_price |-> pos.current_price])]

save_account_snapshot(db, cash, mv, equity, pnl) ==
    [db EXCEPT !.account_snapshots = Append(@,
        [id |-> Len(db.account_snapshots) + 1, cash |-> cash,
         market_value |-> mv, total_equity |-> equity, total_pnl |-> pnl])]

save_monitor_log(db, message, log_type) ==
    [db EXCEPT !.monitor_logs = Append(@,
        [id |-> Len(db.monitor_logs) + 1, message |-> message,
         log_type |-> log_type])]

-----------------------------------------------------------------------------
(* monitor.py: the state of a TradingMonitor is a record m of its account,  *)
(* its strategy and its trade_db                                            *)

\* a log message: what it reports, about which symbol, at which price and
\* for how many shares (the parts of the formatted text that vary)
Message(event, symbol, price, quantity) ==
    [event |-> event, symbol |-> symbol, price |-> price, quantity |-> quantity]

add_log(m, message, log_type) ==
    [m EXCEPT !.trade_db = save_monitor_log(m.trade_db, message, log_type)]

Reverse(q) == [i \in 1..Len(q) |-> q[Len(q) + 1 - i]]

\* get_all_trades(limit=1000)
RESTORE_LIMIT == 1000

\* _restore_positions: the trades the loop goes through, in its order
replayed_trades(db) == Reverse(get_all_trades(db, RESTORE_LIMIT))

\* _restore_positions: one trade applied to positions_data
replay_trade(data, trade) ==
    LET symbol == trade.symbol
        qty == trade.quantity
        old == IF symbol \in DOMAIN data THEN data[symbol]
               ELSE [qty |-> 0, total_cost |-> RatOfInt(0)]
    IN IF trade.action = "BUY"
       THEN Put(data, symbol,
                [qty |-> old.qty + qty,
                 total_cost |-> RatAdd(old.total_cost, RatOfInt(qty * trade.price))])
       ELSE IF trade.action = "SELL"
       THEN Put(data, symbol,
                IF old.qty - qty > 0
                THEN LET avg_price == RatDivInt(old.total_cost, (old.qty - qty) + qty)
                     IN [qty |-> old.qty - qty,
                         total_cost |-> RatSub(old.total_cost,
                                               RatMulInt(avg_price, qty))]
                ELSE [qty |-> old.qty - qty, total_cost |-> RatOfInt(0)])
       ELSE Put(data, symbol, old)

\* _restore_positions: the loop over reversed(trades), for the trades lo..hi
\* in their order (the range is halved, and the first half computed before
\* the second is entered, to keep the evaluation shallow)
RECURSIVE replay_range(_, _, _, _)
replay_range(trades, lo, hi, data) ==
    IF lo > hi THEN data
    ELSE IF lo = hi THEN replay_trade(data, trades[lo])
    ELSE LET mid == (lo + hi) \div 2
             first == replay_range(trades, lo, mid, data)
         IN IF first = first THEN replay_range(trades, mid + 1, hi, first)
            ELSE data

\* _restore_positions: the loop over reversed(trades), from trade i on
replay(trades, i, data) == replay_range(trades, i, Len(trades), data)

\* total_commission += commission, for the trades lo..hi
RECURSIVE SumCommissionRange(_, _, _)
SumCommissionRange(trades, lo, hi) ==
    IF lo > hi THEN 0
    ELSE IF lo = hi THEN trades[lo].commission
    ELSE LET mid == (lo + hi) \div 2
         IN SumCommissionRange(trades, lo, mid)
              + SumCommissionRange(trades, mid + 1, hi)

SumCommission(trades, i) == SumCommissionRange(trades, i, Len(trades))

RECURSIVE SumTotalCost(_, _)
SumTotalCost(data, S) ==
    IF S = {} THEN RatOfInt(0)
    ELSE LET s == CHOOSE x \in S : TRUE
         IN RatAdd(data[s].total_cost, SumTotalCost(data, S \ {s}))

\* _restore_positions: the cash debited from what the account holds now
restore_cash_FromCurrent(acct, total_invested) ==
    acct.cash - total_invested

\* _restore_positions: self.account.cash = INITIAL_CAPITAL - total_invested
restore_cash(acct, total_invested) ==
    INITIAL_CAPITAL - total_invested

\* _restore_positions; prices are the Quote Source's answers, per symbol
restore_positions(m, prices) ==
    LET trades == get_all_trades(m.trade_db, RESTORE_LIMIT)
    IN IF Len(trades) = 0 THEN m
       ELSE
       LET oldest_first == replayed_trades(m.trade_db)
           replayed == replay(oldest_first, 1, <<>>)
           total_commission == SumCommission(oldest_first, 1)
           held == {s \in DOMAIN replayed : replayed[s].qty > 0}
           positions_data == [s \in held |-> replayed[s]]
           total_invested ==
               Whole(SumTotalCost(positions_data, held)) + total_commission
           restored(s) ==
               LET avg_price == RatDivInt(positions_data[s].total_cost,
                                          positions_data[s].qty)
               IN Position(s, positions_data[s].qty, avg_price,
                           IF prices[s] = None THEN Whole(avg_price)
                           ELSE prices[s])
       IN [m EXCEPT
             !.account.cash = restore_cash(m.account, total_invested),
             !.account.positions =
                 [s \in (DOMAIN m.account.positions) \cup held |->
                     IF s \in held THEN restored(s) ELSE m.account.positions[s]],
             !.strategy.conditions =
                 [s \in DOMAIN m.strategy.conditions |->
                     IF s \in held
                     THEN [m.strategy.conditions[s] EXCEPT
                              !.quantity = positions_data[s].qty]
                     ELSE m.strategy.conditions[s]]]

\* TradingMonitor.__init__ up to _restore_positions
TradingMonitor ==
    [account |-> VirtualAccount(INITIAL_CAPITAL),
     strategy |-> TradingStrategy,
     trade_db |-> TradeDatabase]

\* load_strategies_from_db with every reloaded condition starting at 0
RECURSIVE load_conditions_FromZero(_, _, _, _, _)
load_conditions_FromZero(strat, acct, existing_positions, strategies, i) ==
    IF i > Len(strategies) THEN strat
    ELSE load_conditions_FromZero(
             add_condition(strat,
                 TradingCondition(strategies[i].symbol, strategies[i].entry_price,
                                  strategies[i].stop_loss,
                                  strategies[i].take_profit, 0)),
             acct, existing_positions, strategies, i + 1)

\* load_strategies_from_db: the quantity a reloaded condition starts with
RECURSIVE load_conditions(_, _, _, _, _)
load_conditions(strat, acct, existing_positions, strategies, i) ==
    IF i > Len(strategies) THEN strat
    ELSE LET st == strategies[i]
             symbol == st.symbol
             current_quantity ==
                 IF symbol \in DOMAIN acct.positions
                 THEN acct.positions[symbol].quantity
                 ELSE IF symbol \in DOMAIN existing_positions
                 THEN existing_positions[symbol]
                 ELSE 0
         IN load_conditions(
                add_condition(strat,
                    TradingCondition(symbol, st.entry_price, st.stop_loss,
                                     st.take_profit, current_quantity)),
                acct, existing_positions, strategies, i + 1)

\* load_strategies_from_db that clears the conditions before it looks at the
\* Strategy Source's answer
load_strategies_from_db_Clears(m, strategies) ==
    LET held == {s \in DOMAIN m.strategy.conditions :
                    m.strategy.conditions[s].quantity > 0}
        existing_positions ==
            [s \in held |-> m.strategy.conditions[s].quantity]
    IN [m EXCEPT !.strategy =
           load_conditions(TradingStrategy, m.account, existing_positions,
                           strategies, 1)]

\* load_strategies_from_db, given the Strategy Source's answer
load_strategies_from_db(m, strategies) ==
    IF Len(strategies) = 0 THEN m
    ELSE LET held == {s \in DOMAIN m.strategy.conditions :
                         m.strategy.conditions[s].quantity > 0}
             existing_positions ==
                 [s \in held |-> m.strategy.conditions[s].quantity]
         IN [m EXCEPT !.strategy =
                load_conditions(TradingStrategy, m.account, existing_positions,
                                strategies, 1)]

\* price * quantity * COMMISSION_RATE
Commission(price, quantity) == (price * quantity) \div COMMISSION_DEN

\* the order sized on the cash instead of the total equity
affordable_quantity_FromCash(acct, price) ==
    acct.cash \div (MAX_POSITION_DEN * price)

\* int(max_investment / price), max_investment = total_equity * MAX_POSITION_SIZE
affordable_quantity(acct, price) ==
    total_equity(acct) \div (MAX_POSITION_DEN * price)

_execute_buy_with_log(m, symbol, price) ==
    LET affordable_qty == affordable_quantity(m.account, price)
        commission == Commission(price, affordable_qty)
        r == buy(m.account, symbol, affordable_qty, price, commission)
    IN IF affordable_qty < 1
       THEN add_log(m, Message("insufficient funds", symbol, price, 0), "warning")
       ELSE IF r.ok
       THEN add_log(
                [m EXCEPT
                    !.account = r.acct,
                    !.strategy = update_position(m.strategy, symbol, affordable_qty),
                    !.trade_db = save_trade(m.trade_db, symbol, "BUY",
                                            affordable_qty, price, commission,
                                            NoNotes)],
                Message("buy", symbol, price, affordable_qty), "trade")
       ELSE add_log(m, Message("buy failed", symbol, price, 0), "error")

\* the reason named after the band of check_exit_signal that fired
sell_reason_ByBand(m, symbol, price) ==
    LET fired == exit_trigger(m.strategy, symbol, price)
    IN IF fired = "STOP LOSS" THEN "stop-loss"
       ELSE IF fired = "TAKE PROFIT" THEN "take-profit"
       ELSE "sell"

\* _execute_sell_with_log: reason is one of the texts 止损, 止盈, 卖出
sell_reason(m, symbol, price) ==
    LET condition == m.strategy.conditions[symbol]
    IN IF price <= condition.stop_loss THEN "stop-loss"
       ELSE IF price >= condition.take_profit THEN "take-profit"
       ELSE "sell"

\* _execute_sell_with_log that sells half of the position (rounded up)
_execute_sell_with_log_Partial(m, symbol, price) ==
    IF symbol \notin DOMAIN m.account.positions THEN m
    ELSE LET position == m.account.positions[symbol]
             quantity == (position.quantity + 1) \div 2
             commission == Commission(price, quantity)
             r == sell(m.account, symbol, quantity, price, commission)
             pnl == RatSub(RatMulInt(RatSub(RatOfInt(price), position.avg_price),
                                     quantity),
                           RatOfInt(commission))
         IN IF r.ok
            THEN add_log(
                     [m EXCEPT
                         !.account = r.acct,
                         !.strategy = update_position(m.strategy, symbol, 0),
                         !.trade_db = save_trade(m.trade_db, symbol, "SELL",
                                                 quantity, price, commission, pnl)],
                     Message(sell_reason(m, symbol, price), symbol, price, quantity),
                     "trade")
            ELSE add_log(m, Message("sell failed", symbol, price, 0), "error")

_execute_sell_with_log(m, symbol, price) ==
    IF symbol \notin DOMAIN m.account.positions THEN m
    ELSE LET position == m.account.positions[symbol]
             quantity == position.quantity
             commission == Commission(price, quantity)
             r == sell(m.account, symbol, quantity, price, commission)
             \* (price - position.avg_price) * quantity - commission
             pnl == RatSub(RatMulInt(RatSub(RatOfInt(price), position.avg_price),
                                     quantity),
                           RatOfInt(commission))
         IN IF r.ok
            THEN add_log(
                     [m EXCEPT
                         !.account = r.acct,
                         !.strategy = update_position(m.strategy, symbol, 0),
                         !.trade_db = save_trade(m.trade_db, symbol, "SELL",
                                                 quantity, price, commission, pnl)],
                     Message(sell_reason(m, symbol, price), symbol, price, quantity),
                     "trade")
            ELSE add_log(m, Message("sell failed", symbol, price, 0), "error")

\* _monitor_symbol that skips a symbol without a quote silently
_monitor_symbol_Silent(m, symbol, current_price) ==
    IF current_price = None THEN m
    ELSE IF symbol \notin DOMAIN m.strategy.conditions
    THEN add_log(m, Message("no plan", symbol, current_price, 0), "warning")
    ELSE IF check_entry_signal(m.strategy, symbol, current_price) = "BUY"
    THEN _execute_buy_with_log(m, symbol, current_price)
    ELSE IF check_exit_signal(m.strategy, symbol, current_price) = "SELL"
    THEN _execute_sell_with_log(m, symbol, current_price)
    ELSE add_log(m, Message("holding", symbol, current_price,
                            m.strategy.conditions[symbol].quantity), "info")

\* _monitor_symbol that goes on to the exit check after a purchase
_monitor_symbol_FallsThrough(m, symbol, current_price) ==
    IF current_price = None
    THEN add_log(m, Message("no price", symbol, None, 0), "error")
    ELSE IF symbol \notin DOMAIN m.strategy.conditions
    THEN add_log(m, Message("no plan", symbol, current_price, 0), "warning")
    ELSE LET bought ==
                 IF check_entry_signal(m.strategy, symbol, current_price) = "BUY"
                 THEN _execute_buy_with_log(m, symbol, current_price)
                 ELSE m
         IN IF check_exit_signal(bought.strategy, symbol, current_price) = "SELL"
            THEN _execute_sell_with_log(bought, symbol, current_price)
            ELSE IF bought # m THEN bought
            ELSE add_log(m, Message("holding", symbol, current_price,
                                    m.strategy.conditions[symbol].quantity), "info")

\* _monitor_symbol, given the Quote Source's answer for the symbol
_monitor_symbol(m, symbol, current_price) ==
    IF current_price = None
    THEN add_log(m, Message("no price", symbol, None, 0), "error")
    ELSE IF symbol \notin DOMAIN m.strategy.conditions
    THEN add_log(m, Message("no plan", symbol, current_price, 0), "warning")
    ELSE LET condition == m.strategy.conditions[symbol]
         IN IF check_entry_signal(m.strategy, symbol, current_price) = "BUY"
            THEN _execute_buy_with_log(m, symbol, current_price)
            ELSE IF check_exit_signal(m.strategy, symbol, current_price) = "SELL"
            THEN _execute_sell_with_log(m, symbol, current_price)
            ELSE IF condition.quantity > 0
            THEN add_log(m, Message("holding", symbol, current_price,
                                    condition.quantity), "info")
            ELSE IF current_price > condition.entry_price
            THEN add_log(m, Message("above entry", symbol, current_price, 0), "info")
            ELSE add_log(m, Message("not bought", symbol, current_price, 0), "info")

\* _update_positions; prices are the Quote Source's answers, per held symbol
_update_positions(m, prices) ==
    IF DOMAIN m.account.positions = {} THEN m
    ELSE [m EXCEPT !.account = update_prices(m.account, prices)]

\* the rows _print_summary saves for the positions; the order of the rows of
\* one summary is the order of the account's dict and is not kept
RECURSIVE save_position_snapshots(_, _, _)
save_position_snapshots(db, positions, S) ==
    IF S = {} THEN db
    ELSE LET s == CHOOSE x \in S : TRUE
         IN save_position_snapshots(save_position_snapshot(db, positions[s]),
                                    positions, S \ {s})

_print_summary(m) ==
    [m EXCEPT !.trade_db =
        save_position_snapshots(
            save_account_snapshot(m.trade_db, m.account.cash,
                                  total_market_value(m.account),
                                  total_equity(m.account), total_pnl(m.account)),
            m.account.positions, DOMAIN m.account.positions)]

\* monitor_task: the loop over symbols, from the i-th on; quotes are the
\* Quote Source's answers to _monitor_symbol, per symbol
RECURSIVE monitor_symbols(_, _, _, _)
monitor_symbols(m, symbols, i, quotes) ==
    IF i > Len(symbols) THEN m
    ELSE monitor_symbols(_monitor_symbol(m, symbols[i], quotes[symbols[i]]),
                         symbols, i + 1, quotes)

\* monitor_task, given what its collaborators answer during the tick: whether
\* the market is open, the Strategy Source's list, the quotes _monitor_symbol
\* gets and the prices _update_positions gets
monitor_task(m, open, strategies, quotes, prices) ==
    IF ~open
    THEN add_log(m, Message("market closed", "", None, 0), "info")
    ELSE LET loaded == load_strategies_from_db(m, strategies)
             symbols == get_all_symbols(loaded.strategy)
         IN IF Len(strategies) = 0
            THEN add_log(loaded, Message("no plans", "", None, 0), "warning")
            ELSE IF Len(symbols) = 0 THEN loaded
            ELSE _print_summary(
                     _update_positions(
                         monitor_symbols(loaded, symbols, 1, quotes), prices))

\* the account as monitor_task leaves it to _update_positions
account_to_mark(m, open, strategies, quotes) ==
    IF ~open THEN m.account
    ELSE IF Len(strategies) = 0 THEN m.account
    ELSE LET loaded == load_strategies_from_db(m, strategies)
         IN monitor_symbols(loaded, get_all_symbols(loaded.strategy), 1,
                            quotes).account

\* BackgroundScheduler(): no job registered, not started; shutdowns counts
\* the calls of shutdown() it has served
BackgroundScheduler == [jobs |-> 0, running |-> FALSE, shutdowns |-> 0]

\* the lifecycle fields of a TradingMonitor after __init__
Lifecycle == [is_running |-> FALSE, scheduler |-> BackgroundScheduler]

\* start that registers its job whatever is_running says
start_Unguarded(life) ==
    [is_running |-> TRUE,
     scheduler |-> [life.scheduler EXCEPT !.jobs = @ + 1, !.running = TRUE]]

\* start: add_job(monitor_task, 'interval', ...), scheduler.start()
start(life) ==
    IF life.is_running THEN life
    ELSE [is_running |-> TRUE,
          scheduler |-> [life.scheduler EXCEPT !.jobs = @ + 1, !.running = TRUE]]

\* stop that leaves the scheduler and its job as they are
stop_KeepsTimer(life) ==
    IF ~life.is_running THEN life
    ELSE [life EXCEPT !.is_running = FALSE]

\* stop: scheduler.shutdown() ends the scheduler and its jobs
stop(life) ==
    IF ~life.is_running THEN life
    ELSE [is_running |-> FALSE,
          scheduler |-> [jobs |-> 0, running |-> FALSE,
                         shutdowns |-> life.scheduler.shutdowns + 1]]

\* trigger_monitor that starts the monitor it triggers
trigger_monitor_Starting(life) == start_Unguarded(life)

\* trigger_monitor (app.py): monitor.monitor_task() and nothing else
trigger_monitor(life) == life

-----------------------------------------------------------------------------
(* State shared by every specification *)

\* timestamp TIMESTAMP DEFAULT CURRENT_TIMESTAMP: the second the store's
\* clock shows, and the column of the two tables that are read back by it,
\* row by row in the order of the ids.  The clock is followed only where
\* the readers of these two tables are called.
Timestamps == [now |-> 0, account_snapshots |-> <<>>, monitor_logs |-> <<>>]

\* no thread is inside monitor_task
Outside == [t \in {"scheduler", "request"} |-> [at |-> "outside"]]

LifecycleIdle ==
    /\ is_running = Lifecycle.is_running
    /\ scheduler = Lifecycle.scheduler
    /\ in_tick = {}
    /\ timestamp = Timestamps
    /\ pc = Outside

LifecycleUnchanged ==
    UNCHANGED <<is_running, scheduler, in_tick, timestamp, pc>>

NoCall == [op |-> "none", symbol |-> "", quantity |-> 0, price |-> 0,
           commission |-> 0]

MonitorIdle ==
    /\ strategy = TradingStrategy
    /\ trade_db = TradeDatabase
    /\ ticks = 0
    /\ restores = 0
    /\ LifecycleIdle

MonitorUnchanged ==
    /\ UNCHANGED <<strategy, trade_db, ticks, restores, world>>
    /\ LifecycleUnchanged

-----------------------------------------------------------------------------
(* The account alone: direct calls of buy and sell *)

\* number of trades an account records before the model stops calling it
MaxLedgerTrades == 3

LedgerCapitals == {0, 2500}
LedgerQuantities == {1, 10}
LedgerPrices == {100, 120}
LedgerCommissions == {0, 7}

LedgerInit ==
    /\ world = "ledger"
    /\ account \in {VirtualAccount(c) : c \in LedgerCapitals}
    /\ call = NoCall
    /\ ret = "none"
    /\ logged = "none"
    /\ MonitorIdle

Bool(b) == IF b THEN "True" ELSE "False"

BuyCall ==
    \E symbol \in Symbols, quantity \in LedgerQuantities,
       price \in LedgerPrices, commission \in LedgerCommissions :
        /\ world = "ledger"
        /\ Len(account.trades) < MaxLedgerTrades
        /\ LET r == buy(account, symbol, quantity, price, commission)
           IN /\ account' = r.acct
              /\ ret' = Bool(r.ok)
        /\ call' = [op |-> "buy", symbol |-> symbol, quantity |-> quantity,
                    price |-> price, commission |-> commission]
        /\ UNCHANGED logged
        /\ MonitorUnchanged

SellCall ==
    \E symbol \in Symbols, quantity \in LedgerQuantities,
       price \in LedgerPrices, commission \in LedgerCommissions :
        /\ world = "ledger"
        /\ Len(account.trades) < MaxLedgerTrades
        /\ LET r == sell(account, symbol, quantity, price, commission)
           IN /\ account' = r.acct
              /\ ret' = Bool(r.ok)
        /\ call' = [op |-> "sell", symbol |-> symbol, quantity |-> quantity,
                    price |-> price, commission |-> commission]
        /\ UNCHANGED logged
        /\ MonitorUnchanged

LedgerNext == BuyCall \/ SellCall

SpecLedger == LedgerInit /\ [][LedgerNext]_vars

BuyNext == BuyCall

SpecBuy == LedgerInit /\ [][BuyNext]_vars

CallCost(c) == (c.quantity * c.price) + c.commission

HeldQuantity(acct, symbol) ==
    IF symbol \in DOMAIN acct.positions THEN acct.positions[symbol].quantity ELSE 0

\* C1: a buy whose total cost qty*price + commission exceeds the cash returns
\* False and leaves cash, positions, trades and next_trade_id as they were.
C1_RejectedBuyChangesNothing ==
    [][(call'.op = "buy" /\ CallCost(call') > account.cash)
        => (ret' = "False" /\ account' = account)]_vars

C1_Witness ==
    /\ call.op = "buy"
    /\ ret = "False"
    /\ CallCost(call) > account.cash
    /\ call.quantity * call.price <= account.cash
    /\ Len(account.trades) > 0

\* C2: starting from cash = initial_capital >= 0, cash is >= 0 after any
\* sequence of buy calls, accepted or rejected.
C2_CashNonNegativeUnderBuys ==
    (\A i \in 1..Len(account.trades) : account.trades[i].action = "BUY")
        => account.cash >= 0

C2_Witness ==
    /\ Len(account.trades) >= 2
    /\ call.op = "buy"
    /\ ret = "False"
    /\ account.cash >= 0
    /\ account.cash < account.initial_capital

\* C4: every position in the mapping has quantity > 0, and a successful sell
\* of the whole held quantity removes the symbol's key from the mapping.
C4_PositionsArePositive ==
    /\ [](\A s \in DOMAIN account.positions : account.positions[s].quantity > 0)
    /\ [][(call'.op = "sell" /\ ret' = "True"
            /\ account'.next_trade_id = account.next_trade_id + 1
            /\ call'.quantity = HeldQuantity(account, call'.symbol))
          => call'.symbol \notin DOMAIN account'.positions]_vars

C4_Witness ==
    /\ call.op = "sell"
    /\ ret = "True"
    /\ call.symbol \notin DOMAIN account.positions
    /\ \E i \in 1..Len(account.trades) :
          /\ account.trades[i].action = "BUY"
          /\ account.trades[i].symbol = call.symbol
          /\ account.trades[i].quantity = call.quantity
    /\ account.trades[Len(account.trades)].action = "SELL"
    /\ DOMAIN account.positions # {}

\* C5: a successful buy into an existing position (old_qty, old_avg) gives
\* quantity old_qty + qty and avg_price (old_qty*old_avg + qty*price) /
\* (old_qty + qty); a successful buy of a symbol not held gives a position
\* (qty, price); 10 @ 100 then 10 @ 120 gives quantity 20, avg_price 110.
C5_WeightedAverageCost ==
    /\ [][(call'.op = "buy" /\ ret' = "True"
            /\ account'.next_trade_id = account.next_trade_id + 1)
          => LET s == call'.symbol
                 new == account'.positions[s]
             IN IF s \in DOMAIN account.positions
                THEN LET old == account.positions[s]
                     IN /\ new.quantity = old.quantity + call'.quantity
                        /\ new.avg_price.n * new.quantity * old.avg_price.d
                             = new.avg_price.d
                               * ((old.quantity * old.avg_price.n)
                                  + (call'.quantity * call'.price * old.avg_price.d))
                ELSE /\ new.quantity = call'.quantity
                     /\ RatEq(new.avg_price, call'.price, 1)]_vars
    /\ [](\A s \in Symbols :
            (/\ Len(account.trades) = 2
             /\ account.trades[1] = Trade(1, s, "BUY", 10, 100, account.trades[1].commission)
             /\ account.trades[2] = Trade(2, s, "BUY", 10, 120, account.trades[2].commission))
            => (/\ account.positions[s].quantity = 20
                /\ account.positions[s].avg_price = RatOfInt(110)))

C5_Witness ==
    /\ Len(account.trades) = 2
    /\ account.trades[1] = Trade(1, "AAPL", "BUY", 10, 100, 0)
    /\ account.trades[2] = Trade(2, "AAPL", "BUY", 10, 120, 7)
    /\ account.positions["AAPL"].quantity = 20
    /\ account.positions["AAPL"].avg_price = RatOfInt(110)

-----------------------------------------------------------------------------
(* The signal engine alone: check_entry_signal and check_exit_signal applied *)
(* to one condition and one price                                           *)

\* the held quantity of the condition the engine is given, when not 0
SignalHeld == 66

SignalEntries == {None, 100 * Dollar}
SignalStops == {None, 0, 100 * Dollar}
SignalTargets == {None, 0, 101 * Dollar}
SignalPrices ==
    {c * Cent : c \in {9899, 9900, 9998, 9999, 10050, 10100, 10101, 10201, 10202}}

SignalInit ==
    /\ world = "signal"
    /\ account = VirtualAccount(INITIAL_CAPITAL)
    /\ \/ strategy = TradingStrategy
       \/ \E e \in SignalEntries, sl \in SignalStops, tp \in SignalTargets,
             q \in {0, SignalHeld} :
            strategy = add_condition(TradingStrategy,
                                     TradingCondition("AAPL", e, sl, tp, q))
    /\ \E symbol \in Symbols, price \in SignalPrices :
          call = [NoCall EXCEPT !.symbol = symbol, !.price = price]
    /\ ret = "none"
    /\ logged = "none"
    /\ trade_db = TradeDatabase
    /\ ticks = 0
    /\ restores = 0
    /\ LifecycleIdle

CheckEntry ==
    /\ world = "signal"
    /\ call.op = "none"
    /\ call' = [call EXCEPT !.op = "check_entry_signal"]
    /\ ret' = check_entry_signal(strategy, call.symbol, call.price)
    /\ logged' = IF ret' = "BUY" THEN "BUY signal" ELSE "none"
    /\ UNCHANGED account
    /\ MonitorUnchanged

CheckExit ==
    /\ world = "signal"
    /\ call.op = "none"
    /\ call' = [call EXCEPT !.op = "check_exit_signal"]
    /\ ret' = check_exit_signal(strategy, call.symbol, call.price)
    /\ logged' = exit_trigger(strategy, call.symbol, call.price)
    /\ UNCHANGED account
    /\ MonitorUnchanged

SignalNext == CheckEntry \/ CheckExit

SpecSignal == SignalInit /\ [][SignalNext]_vars

HasCondition == call.symbol \in DOMAIN strategy.conditions

Cond == strategy.conditions[call.symbol]

\* price within [threshold * 0.99, threshold * 1.01], as the claims state it
Within(threshold, price) ==
    /\ threshold * 99 <= price * 100
    /\ price * 100 <= threshold * 101

\* C6: check_entry_signal returns BUY iff the symbol has a condition, its
\* quantity is 0, entry_price is set and entry*0.99 <= price <= entry*1.01,
\* and no signal otherwise; with entry 100, 99.00 and 101.00 give BUY, 98.99
\* and 101.01 give no signal.
C6_EntryBand ==
    call.op = "check_entry_signal" =>
        /\ ret \in {"BUY", "None"}
        /\ ret = "BUY" <=>
              /\ HasCondition
              /\ Cond.quantity = 0
              /\ Cond.entry_price # None
              /\ Within(Cond.entry_price, call.price)
        /\ (HasCondition /\ Cond.quantity = 0 /\ Cond.entry_price = 100 * Dollar) =>
              /\ call.price \in {9900 * Cent, 10100 * Cent} => ret = "BUY"
              /\ call.price \in {9899 * Cent, 10101 * Cent} => ret = "None"

C6_Witness ==
    /\ call.op = "check_entry_signal"
    /\ HasCondition
    /\ Cond.quantity = 0
    /\ Cond.entry_price = 100 * Dollar
    /\ call.price = 10100 * Cent
    /\ ret = "BUY"

\* C7: check_exit_signal returns no signal when the condition's quantity is
\* 0; otherwise SELL from the stop-loss band when stop_loss is set and the
\* price is within it, else SELL from the take-profit band when take_profit
\* is set and the price is within it, else no signal.
C7_ExitStopLossFirst ==
    (call.op = "check_exit_signal" /\ HasCondition) =>
        LET at_stop == /\ Cond.stop_loss # None
                       /\ Within(Cond.stop_loss, call.price)
            at_take == /\ Cond.take_profit # None
                       /\ Within(Cond.take_profit, call.price)
        IN IF Cond.quantity = 0 THEN ret = "None" /\ logged = "none"
           ELSE IF at_stop THEN ret = "SELL" /\ logged = "STOP LOSS"
           ELSE IF at_take THEN ret = "SELL" /\ logged = "TAKE PROFIT"
           ELSE ret = "None" /\ logged = "none"

C7_Witness ==
    /\ call.op = "check_exit_signal"
    /\ HasCondition
    /\ Cond.quantity > 0
    /\ Cond.stop_loss = 100 * Dollar
    /\ Cond.take_profit = 101 * Dollar
    /\ call.price = 10050 * Cent
    /\ ret = "SELL"
    /\ logged = "STOP LOSS"

-----------------------------------------------------------------------------
(* The monitor: ticks that do not overlap, and restarts of the process *)

\* ticks and restarts the model follows
MaxTicks == 2
MaxRestores == 1

\* ticks of the one-strategy scenario the model follows
ScenarioTicks == 5

\* the largest value of one position the model follows
MaxPositionValue == 910000 * Dollar

Strategy(symbol, entry_price, stop_loss, take_profit) ==
    [symbol |-> symbol, entry_price |-> entry_price, stop_loss |-> stop_loss,
     take_profit |-> take_profit]

\* the lists the Strategy Source may answer with, by world
StrategyAnswers(w) ==
    IF w = "scenario"
    THEN {<<Strategy("AAPL", 150 * Dollar, 285 * HalfDollar, 165 * Dollar)>>}
    ELSE IF w \in {"restore", "lifecycle", "shutdown"}
    THEN {<<Strategy("AAPL", 100 * Dollar, 100 * Dollar, 101 * Dollar)>>}
    ELSE IF w = "sizing"
    THEN {<<Strategy("AAPL", 10100 * Dollar, 9000 * Dollar, 10600 * Dollar),
            Strategy("MSFT", 100 * Dollar, 95 * Dollar, 9100 * Dollar)>>,
          <<Strategy("AAPL", 10500 * Dollar, 9000 * Dollar, 10600 * Dollar),
            Strategy("MSFT", 100 * Dollar, 95 * Dollar, 9100 * Dollar)>>}
    ELSE IF w = "race"
    THEN {<<Strategy("MSFT", 100 * Dollar, 95 * Dollar, 9100 * Dollar)>>}
    ELSE IF w = "recovery"
    THEN {<<Strategy("MSFT", 100 * Dollar, 95 * Dollar, 9100 * Dollar),
            Strategy("AAPL", 100 * Dollar, 100 * Dollar, 101 * Dollar)>>}
    ELSE {<<>>,
          <<Strategy("MSFT", 100 * Dollar, 95 * Dollar, 9100 * Dollar),
            Strategy("AAPL", 100 * Dollar, 100 * Dollar, 101 * Dollar)>>,
          <<Strategy("MSFT", 100 * Dollar, 95 * Dollar, 9100 * Dollar)>>}

\* the prices the Quote Source may answer with (or None), by world and symbol
QuoteAnswers(w, symbol) ==
    IF w = "scenario"
    THEN {151 * Dollar, 140 * Dollar, 170 * Dollar}
    ELSE IF symbol = "AAPL" /\ w \in {"reload", "lifecycle", "shutdown"}
    THEN {100 * Dollar}
    ELSE IF symbol = "AAPL" /\ w = "sizing" THEN {10100 * Dollar, 10500 * Dollar}
    ELSE IF w = "sizing" THEN {100 * Dollar, 5000 * Dollar, 9100 * Dollar}
    ELSE IF w = "recovery" THEN {None, 100 * Dollar}
    ELSE IF w = "race" THEN {100 * Dollar}
    ELSE IF symbol = "AAPL" THEN {None, 100 * Dollar, 201 * HalfDollar}
    ELSE IF w = "faults" THEN {None, 100 * Dollar}
    ELSE {100 * Dollar, 9100 * Dollar}

\* a quote keeps the value of the position it prices within the model's range
Quotable(acct, symbol, price) ==
    IF price = None THEN TRUE
    ELSE IF symbol \notin DOMAIN acct.positions THEN TRUE
    ELSE price <= MaxPositionValue \div acct.positions[symbol].quantity

\* the answers of the Quote Source for the symbols of S, one per symbol
Quotations(w, acct, S) ==
    {q \in [S -> UNION {QuoteAnswers(w, s) : s \in S}] :
        \A s \in S : q[s] \in QuoteAnswers(w, s) /\ Quotable(acct, s, q[s])}

Range(q) == {q[i] : i \in 1..Len(q)}

M == [account |-> account, strategy |-> strategy, trade_db |-> trade_db]

MonitorInit ==
    /\ account = TradingMonitor.account
    /\ strategy = TradingMonitor.strategy
    /\ trade_db = TradingMonitor.trade_db
    /\ ticks = 0
    /\ restores = 0
    /\ call = NoCall
    /\ ret = "none"
    /\ logged = "none"
    /\ LifecycleIdle

\* the body of monitor_task, with the answers of its collaborators: the
\* Quote Source is asked for the symbols of the refreshed conditions, then
\* for the symbols held
TickBody ==
    \E open \in BOOLEAN :
         LET Done(m) == /\ account' = m.account
                        /\ strategy' = m.strategy
                        /\ trade_db' = m.trade_db
         IN IF ~open THEN Done(monitor_task(M, FALSE, <<>>, <<>>, <<>>))
            ELSE \E strategies \in StrategyAnswers(world) :
                 IF Len(strategies) = 0
                 THEN Done(monitor_task(M, TRUE, strategies, <<>>, <<>>))
                 ELSE \E quotes \in Quotations(world, account,
                                               {st.symbol : st \in Range(strategies)}) :
                      LET to_mark == account_to_mark(M, TRUE, strategies, quotes)
                      IN \E prices \in Quotations(world, to_mark,
                                                  DOMAIN to_mark.positions) :
                           /\ world = "scenario" =>
                                 \A s \in DOMAIN prices : prices[s] = quotes[s]
                           /\ Done(monitor_task(M, TRUE, strategies, quotes, prices))

\* one execution of monitor_task, from its first line to its last
Tick ==
    /\ world \in {"monitor", "scenario", "restore", "reload", "recovery"}
    /\ ticks < (IF world = "scenario" THEN ScenarioTicks ELSE MaxTicks)
    /\ TickBody
    /\ ticks' = ticks + 1
    /\ call' = [NoCall EXCEPT !.op = "monitor_task"]
    /\ UNCHANGED <<restores, world, ret, logged>>
    /\ LifecycleUnchanged

\* the symbols _restore_positions asks the Quote Source about
restored_symbols(db) ==
    LET data == replay(replayed_trades(db), 1, <<>>)
    IN {s \in DOMAIN data : data[s].qty > 0}

\* the process is started again: TradingMonitor.__init__ on the persisted
\* tables, with the Quote Source's answers to _restore_positions
Restart ==
    /\ world \in {"monitor", "restore", "reload"}
    /\ restores < MaxRestores
    /\ \E prices \in [restored_symbols(trade_db) ->
                        UNION {QuoteAnswers(world, s) : s \in Symbols}] :
          LET m == restore_positions(
                       [TradingMonitor EXCEPT !.trade_db = trade_db], prices)
          IN /\ \A s \in DOMAIN prices : prices[s] \in QuoteAnswers(world, s)
             /\ \A s \in DOMAIN m.account.positions :
                   Quotable(m.account, s, m.account.positions[s].current_price)
             /\ account' = m.account
             /\ strategy' = m.strategy
             /\ trade_db' = m.trade_db
             /\ call' = [op |-> "_restore_positions", prices |-> prices]
    /\ restores' = restores + 1
    /\ UNCHANGED <<ticks, world, ret, logged>>
    /\ LifecycleUnchanged

Init == world = "monitor" /\ MonitorInit

Next == Tick \/ Restart

Spec == Init /\ [][Next]_vars

ScenarioInit == world = "scenario" /\ MonitorInit

ScenarioNext == Tick

SpecScenario == ScenarioInit /\ [][ScenarioNext]_vars

-----------------------------------------------------------------------------
(* Properties of the orchestrator *)

LastLog(db) == db.monitor_logs[Len(db.monitor_logs)].message

LastTrade(db) == db.trades[Len(db.trades)]

\* C3: the account's cash is never negative, whatever ticks bought and sold
\* and whenever the account was rebuilt from the persisted trades.
C3_CashNeverNegative == account.cash >= 0

\* C8: with stop_loss 100 and take_profit 101, the exit of a held AAPL quoted
\* at 100.5 is recorded by the tick with the stop-loss reason.
C8_OverlapRecordedAsStopLoss ==
    \A i \in 1..Len(trade_db.monitor_logs) :
        LET row == trade_db.monitor_logs[i]
        IN (/\ row.log_type = "trade"
            /\ row.message.symbol = "AAPL"
            /\ row.message.price = 201 * HalfDollar
            /\ row.message.event # "buy")
           => row.message.event = "stop-loss"

\* the log of the scenario after its first three ticks: 66 shares bought at
\* 151, the closed market skipped, the position held at 151
ScenarioPrefix ==
    /\ world = "scenario"
    /\ Len(trade_db.monitor_logs) = 3
    /\ trade_db.monitor_logs[1].message = Message("buy", "AAPL", 151 * Dollar, 66)
    /\ trade_db.monitor_logs[2].message = Message("market closed", "", None, 0)
    /\ trade_db.monitor_logs[3].message = Message("holding", "AAPL", 151 * Dollar, 66)

\* C9: in the scenario (capital 100000, AAPL entry 150, stop 142.5, target
\* 165; quotes 151, closed, 151, 140, 170) the first tick buys 66 shares and
\* the tick quoting 140 sells them at stop-loss with a negative realised P&L,
\* leaving no position.
C9_ScenarioStopLossAt140 ==
    [][(/\ ScenarioPrefix
        /\ ticks' = ticks + 1
        /\ LastLog(trade_db').price = 140 * Dollar)
       => (/\ LastLog(trade_db').event = "stop-loss"
           /\ "AAPL" \notin DOMAIN account'.positions
           /\ LastTrade(trade_db').action = "SELL"
           /\ LastTrade(trade_db').notes.n < 0)]_vars

\* C10: _restore_positions run again on the same persisted trades, with the
\* same answers of the Quote Source, leaves the cash and the positions
\* (symbols, quantities, average prices) it produced the first time.
C10_RestoreIdempotent ==
    [][(restores' = restores + 1)
       => LET once == [account |-> account', strategy |-> strategy',
                       trade_db |-> trade_db']
              twice == restore_positions(once, call'.prices)
          IN /\ twice.account.cash = account'.cash
             /\ twice.account.positions = account'.positions]_vars

C10_Witness ==
    /\ restores = 1
    /\ call.op = "_restore_positions"
    /\ Len(trade_db.trades) > 0
    /\ DOMAIN account.positions # {}
    /\ account.cash # INITIAL_CAPITAL

-----------------------------------------------------------------------------
(* Restarts of a monitor whose trade log is long: the monitor has run        *)
(* LongRunTicks ticks on one plan quoted at its entry price, each tick       *)
(* buying or selling, before the behaviours of SpecRestore begin             *)

LongRunStrategies == <<Strategy("AAPL", 100 * Dollar, 100 * Dollar, 101 * Dollar)>>

\* one tick of the long run: the market open, AAPL quoted at 100
long_run_tick(m) ==
    LET quotes == [s \in {"AAPL"} |-> 100 * Dollar]
        to_mark == account_to_mark(m, TRUE, LongRunStrategies, quotes)
    IN monitor_task(m, TRUE, LongRunStrategies, quotes,
                    [s \in DOMAIN to_mark.positions |-> 100 * Dollar])

\* n ticks of the long run, one after the other (the run is halved, and the
\* first half computed before the second is entered, to keep the evaluation
\* shallow)
RECURSIVE long_run(_, _)
long_run(m, n) ==
    IF n = 0 THEN m
    ELSE IF n = 1 THEN long_run_tick(m)
    ELSE LET half == long_run(m, n \div 2)
         IN IF half = half THEN long_run(half, n - (n \div 2)) ELSE m

\* the long run leaves one trade less than _restore_positions reads
LongRunTicks == RESTORE_LIMIT - 1

RestoreInit ==
    /\ world = "restore"
    /\ \E n \in {0, LongRunTicks} :
          LET m == long_run(TradingMonitor, n)
          IN /\ account = m.account
             /\ strategy = m.strategy
             /\ trade_db = m.trade_db
    /\ ticks = 0
    /\ restores = 0
    /\ call = NoCall
    /\ ret = "none"
    /\ logged = "none"
    /\ LifecycleIdle

SpecRestore == RestoreInit /\ [][Next]_vars

Restored == call.op = "_restore_positions"

\* C11: the reconstruction replays every trade of the persisted log, oldest
\* first, however many trades the log holds.
C11_ReplaysWholeLog ==
    Restored => replayed_trades(trade_db) = trade_db.trades

\* average-cost accounting of the trades lo..hi of one symbol, as the claims
\* state it: a BUY adds its quantity and quantity * price, a SELL takes its
\* quantity and the same fraction of the cost
RECURSIVE AverageCost(_, _, _, _, _)
AverageCost(trades, symbol, lo, hi, held) ==
    IF lo > hi THEN held
    ELSE IF lo = hi
    THEN LET t == trades[lo]
         IN IF t.symbol # symbol THEN held
            ELSE IF t.action = "BUY"
            THEN [qty |-> held.qty + t.quantity,
                  cost |-> RatAdd(held.cost, RatOfInt(t.quantity * t.price))]
            ELSE [qty |-> held.qty - t.quantity,
                  cost |-> IF held.qty <= 0 THEN RatOfInt(0)
                           ELSE RatDivInt(RatMulInt(held.cost, held.qty - t.quantity),
                                          held.qty)]
    ELSE LET mid == (lo + hi) \div 2
             first == AverageCost(trades, symbol, lo, mid, held)
         IN IF first = first THEN AverageCost(trades, symbol, mid + 1, hi, first)
            ELSE held

WholeLog(symbol) ==
    AverageCost(trade_db.trades, symbol, 1, Len(trade_db.trades),
                [qty |-> 0, cost |-> RatOfInt(0)])

\* C12: after the reconstruction each symbol's quantity is its BUY quantities
\* minus its SELL quantities, its cost basis is the average-cost basis of its
\* trades, and a symbol whose net quantity is 0 has no position.
C12_AverageCostReplay ==
    Restored =>
        \A s \in Symbols :
            IF WholeLog(s).qty > 0
            THEN /\ s \in DOMAIN account.positions
                 /\ account.positions[s].quantity = WholeLog(s).qty
                 /\ RatMulInt(account.positions[s].avg_price, WholeLog(s).qty)
                      = WholeLog(s).cost
            ELSE s \notin DOMAIN account.positions

\* the cost basis of the positions an account holds
RECURSIVE CostBasisHeld(_, _)
CostBasisHeld(acct, S) ==
    IF S = {} THEN RatOfInt(0)
    ELSE LET s == CHOOSE x \in S : TRUE
         IN RatAdd(RatMulInt(acct.positions[s].avg_price,
                             acct.positions[s].quantity),
                   CostBasisHeld(acct, S \ {s}))

\* C13: after the reconstruction from a non-empty history the cash is the
\* initial capital minus the remaining cost basis of the surviving positions
\* minus the commissions of all the trades of the history.
C13_RestoredCash ==
    (Restored /\ Len(trade_db.trades) > 0) =>
        RatOfInt(account.cash) =
            RatSub(RatOfInt(INITIAL_CAPITAL
                            - SumCommission(trade_db.trades, 1)),
                   CostBasisHeld(account, DOMAIN account.positions))

-----------------------------------------------------------------------------
(* Ticks, restarts and reloads of the conditions outside a tick, as the     *)
(* start of the application and its start endpoint do them                  *)

\* load_strategies_from_db called on its own
Reload ==
    /\ world = "reload"
    /\ \E strategies \in StrategyAnswers(world) :
          LET m == load_strategies_from_db(M, strategies)
          IN /\ account' = m.account
             /\ strategy' = m.strategy
             /\ trade_db' = m.trade_db
             /\ ret' = Len(strategies)
    /\ call' = [NoCall EXCEPT !.op = "load_strategies_from_db"]
    /\ UNCHANGED <<ticks, restores, world, logged>>
    /\ LifecycleUnchanged

ReloadInit == world = "reload" /\ MonitorInit

ReloadNext == Tick \/ Restart \/ Reload

SpecReload == ReloadInit /\ [][ReloadNext]_vars

\* C14: between ticks, reloads and reconstructions, the quantity of every
\* TradingCondition is the quantity of the account's position for its symbol
\* (0 when the account holds none).
C14_ConditionMatchesLedger ==
    \A s \in DOMAIN strategy.conditions :
        strategy.conditions[s].quantity = HeldQuantity(account, s)

C14_Witness ==
    /\ restores > 0
    /\ call.op = "load_strategies_from_db"
    /\ \E s \in DOMAIN strategy.conditions :
          /\ strategy.conditions[s].quantity > 0
          /\ strategy.conditions[s].quantity = HeldQuantity(account, s)
    /\ \E s \in DOMAIN strategy.conditions : strategy.conditions[s].quantity = 0

-----------------------------------------------------------------------------
(* The account alone: sell *)

\* C19: sell(symbol, qty, price, commission) returns False and leaves cash,
\* positions, trades and next_trade_id unchanged when the symbol has no
\* position or qty exceeds the quantity held; otherwise it credits
\* qty*price - commission to cash and decrements the position by qty.
C19_SellRejectsOrCredits ==
    [][call'.op = "sell" =>
        IF call'.symbol \notin DOMAIN account.positions
        THEN ret' = "False" /\ account' = account
        ELSE IF call'.quantity > account.positions[call'.symbol].quantity
        THEN ret' = "False" /\ account' = account
        ELSE /\ ret' = "True"
             /\ account'.cash = account.cash
                    + ((call'.quantity * call'.price) - call'.commission)
             /\ HeldQuantity(account', call'.symbol)
                    = account.positions[call'.symbol].quantity - call'.quantity
             /\ \A s \in Symbols \ {call'.symbol} :
                    HeldQuantity(account', s) = HeldQuantity(account, s)]_vars

\* a sale of more than is held, refused after a sale that was accepted
C19_Witness ==
    /\ call.op = "sell"
    /\ ret = "False"
    /\ call.symbol \in DOMAIN account.positions
    /\ call.quantity > account.positions[call.symbol].quantity
    /\ \E i \in 1..Len(account.trades) :
          /\ account.trades[i].action = "SELL"
          /\ account.trades[i].symbol = call.symbol

-----------------------------------------------------------------------------
(* The tables *)

Tables == {"trades", "position_snapshots", "account_snapshots", "monitor_logs"}

IsPrefix(a, b) == Len(a) <= Len(b) /\ \A i \in 1..Len(a) : a[i] = b[i]

\* C20: the persisted tables are append-only: whatever the monitor does
\* (ticks that save trades, snapshots and log lines, restarts that read the
\* trades back), every row written before is still there, in its place and
\* unmodified, and the ids of the trades rise strictly in insertion order.
C20_TablesAppendOnly ==
    /\ [](\A i, j \in 1..Len(trade_db.trades) :
            i < j => trade_db.trades[i].id < trade_db.trades[j].id)
    /\ [][\A t \in Tables : IsPrefix(trade_db[t], trade_db'[t])]_vars

\* a restart that read back two trades, with rows in every table
C20_Witness ==
    /\ call.op = "_restore_positions"
    /\ Len(trade_db.trades) >= 2
    /\ \A t \in Tables : Len(trade_db[t]) >= 2

-----------------------------------------------------------------------------
(* The lifecycle: start, stop, the ticks the scheduler's timer runs on a    *)
(* thread of its pool and the ticks the trigger endpoint runs on a request  *)
(* thread.  A tick has a first and a last step; what it does to the account, *)
(* the conditions and the tables is taken in its last step.                 *)

\* calls of shutdown() the model follows
MaxStops == 2

Threads == {"scheduler", "request"}

Life == [is_running |-> is_running, scheduler |-> scheduler]

LifecycleInit == world = "lifecycle" /\ MonitorInit

Start ==
    /\ world \in {"lifecycle", "shutdown"}
    /\ is_running' = start(Life).is_running
    /\ scheduler' = start(Life).scheduler
    /\ logged' = IF is_running THEN "Monitor is already running"
                 ELSE "Trading Monitor started"
    /\ call' = [NoCall EXCEPT !.op = "start"]
    /\ UNCHANGED <<account, strategy, trade_db, ticks, restores, world, ret,
                   in_tick, timestamp, pc>>

\* shutdown() waits for the job that is running
Stop ==
    /\ world = "lifecycle"
    /\ is_running => ("scheduler" \notin in_tick /\ scheduler.shutdowns < MaxStops)
    /\ is_running' = stop(Life).is_running
    /\ scheduler' = stop(Life).scheduler
    /\ logged' = IF is_running THEN "Trading Monitor stopped"
                 ELSE "Monitor is not running"
    /\ call' = [NoCall EXCEPT !.op = "stop"]
    /\ UNCHANGED <<account, strategy, trade_db, ticks, restores, world, ret,
                   in_tick, timestamp, pc>>

\* a thread enters monitor_task: the scheduler's when its job is due (one
\* instance of a job at a time), a request's when the trigger endpoint is hit
TickBegin(t) ==
    /\ world \in {"lifecycle", "shutdown"}
    /\ t \notin in_tick
    /\ ticks < MaxTicks
    /\ IF t = "scheduler"
       THEN /\ scheduler.running
            /\ scheduler.jobs > 0
            /\ UNCHANGED <<is_running, scheduler>>
       ELSE /\ is_running' = trigger_monitor(Life).is_running
            /\ scheduler' = trigger_monitor(Life).scheduler
    /\ in_tick' = in_tick \cup {t}
    /\ ticks' = ticks + 1
    /\ call' = [op |-> "monitor_task", thread |-> t, at |-> "begin"]
    /\ UNCHANGED <<account, strategy, trade_db, restores, world, ret, logged,
                   timestamp, pc>>

\* a thread leaves monitor_task
TickEnd(t) ==
    /\ world \in {"lifecycle", "shutdown"}
    /\ t \in in_tick
    /\ TickBody
    /\ in_tick' = in_tick \ {t}
    /\ call' = [op |-> "monitor_task", thread |-> t, at |-> "end"]
    /\ UNCHANGED <<ticks, restores, world, ret, logged, is_running, scheduler,
                   timestamp, pc>>

LifecycleNext ==
    \/ Start
    \/ Stop
    \/ \E t \in Threads : TickBegin(t)
    \/ \E t \in Threads : TickEnd(t)

SpecLifecycle == LifecycleInit /\ [][LifecycleNext]_vars

\* C15: at most one execution of monitor_task is in progress at any time; a
\* manual trigger and a scheduled tick are serialized.
C15_TicksSerialized == Cardinality(in_tick) <= 1

\* C16: start() while Running and stop() while Stopped change neither the
\* Running/Stopped state nor the scheduler: no second timer is registered,
\* no timer is cancelled.
C16_RedundantStartStop ==
    [][/\ (call'.op = "start" /\ is_running)
            => UNCHANGED <<is_running, scheduler>>
       /\ (call'.op = "stop" /\ ~is_running)
            => UNCHANGED <<is_running, scheduler>>]_vars

C16_Witness ==
    /\ call.op = "start"
    /\ logged = "Monitor is already running"
    /\ is_running
    /\ scheduler.jobs = 1
    /\ scheduler.shutdowns > 0

\* C17: the orchestrator starts Stopped; each start() from Stopped registers
\* one interval timer and sets Running, each stop() from Running cancels it
\* and sets Stopped, any number of times, so that is_running is true exactly
\* when one timer is registered.
C17_LifecycleCycles ==
    /\ ~is_running
    /\ [](is_running <=> scheduler.jobs = 1)
    /\ [](scheduler.jobs \in {0, 1})
    /\ [][(call'.op = "start" /\ ~is_running)
            => (is_running' /\ scheduler'.jobs = scheduler.jobs + 1)]_vars
    /\ [][(call'.op = "stop" /\ is_running)
            => (~is_running' /\ scheduler'.jobs = 0)]_vars

C17_Witness ==
    /\ call.op = "start"
    /\ is_running
    /\ scheduler.jobs = 1
    /\ scheduler.shutdowns = MaxStops

\* after is what one execution of monitor_task makes of before
IsTick(before, after) ==
    \/ after = monitor_task(before, FALSE, <<>>, <<>>, <<>>)
    \/ \E strategies \in StrategyAnswers(world) :
        IF Len(strategies) = 0
        THEN after = monitor_task(before, TRUE, strategies, <<>>, <<>>)
        ELSE \E quotes \in Quotations(world, before.account,
                                      {st.symbol : st \in Range(strategies)}) :
              LET to_mark == account_to_mark(before, TRUE, strategies, quotes)
              IN \E prices \in Quotations(world, to_mark, DOMAIN to_mark.positions) :
                   after = monitor_task(before, TRUE, strategies, quotes, prices)

\* C18: a manual trigger runs the tick procedure whether the orchestrator is
\* Stopped or Running, and changes neither the Running/Stopped state nor
\* the registered timer.
C18_ManualTriggerFrame ==
    [][(call'.op = "monitor_task" /\ call'.thread = "request")
        => /\ UNCHANGED <<is_running, scheduler>>
           /\ call'.at = "end" => IsTick(M, M')]_vars

C18_Witness ==
    /\ call.op = "monitor_task"
    /\ call.thread = "request"
    /\ call.at = "end"
    /\ ~is_running
    /\ scheduler.shutdowns > 0
    /\ scheduler.jobs = 0
    /\ Len(trade_db.trades) > 0

-----------------------------------------------------------------------------
(* The readers of account_snapshots and monitor_logs, called on tables that *)
(* were written second after second.  ORDER BY timestamp leaves the order   *)
(* of rows of one second to the engine: every order it may take is a        *)
(* possible answer.                                                         *)

\* seconds the clock of the store goes through, rows a table receives
MaxSeconds == 1
MaxStoreRows == 3

StoreMessages == {"tick", "trade"}
StoreEquities == {INITIAL_CAPITAL, INITIAL_CAPITAL + Dollar}
StoreLimits == {1, 2}

\* the orders in which ORDER BY timestamp ASC / DESC may deliver rows 1..n
OrderByTimestamp(ts, direction) ==
    {p \in [1..Len(ts) -> 1..Len(ts)] :
        /\ \A i, j \in 1..Len(ts) : i < j => p[i] # p[j]
        /\ \A i, j \in 1..Len(ts) : i < j =>
              IF direction = "ASC" THEN ts[p[i]] <= ts[p[j]]
              ELSE ts[p[i]] >= ts[p[j]]}

\* SELECT timestamp, total_equity FROM account_snapshots
\* ORDER BY timestamp ASC [LIMIT ?]
get_account_snapshots(db, ts, limit, time_range) ==
    LET n == Len(db.account_snapshots)
        k == IF time_range = "all" THEN n ELSE Min(limit, n)
    IN {[i \in 1..k |-> [timestamp |-> ts[p[i]],
                         total_equity |-> db.account_snapshots[p[i]].total_equity]]
        : p \in OrderByTimestamp(ts, "ASC")}

\* SELECT timestamp, message, log_type as type FROM monitor_logs
\* ORDER BY timestamp DESC LIMIT ?, then reversed
get_monitor_logs(db, ts, limit) ==
    LET n == Len(db.monitor_logs)
        k == Min(limit, n)
    IN {Reverse([i \in 1..k |-> [timestamp |-> ts[p[i]],
                                 message |-> db.monitor_logs[p[i]].message,
                                 type |-> db.monitor_logs[p[i]].log_type]])
        : p \in OrderByTimestamp(ts, "DESC")}

StoreInit ==
    /\ world = "store"
    /\ account = VirtualAccount(INITIAL_CAPITAL)
    /\ call = NoCall
    /\ ret = "none"
    /\ logged = "none"
    /\ MonitorIdle

StoreUnchanged ==
    UNCHANGED <<account, strategy, ticks, restores, world, logged, is_running,
                scheduler, in_tick, pc>>

\* a second goes by
Second ==
    /\ world = "store"
    /\ timestamp.now < MaxSeconds
    /\ timestamp' = [timestamp EXCEPT !.now = @ + 1]
    /\ UNCHANGED <<trade_db, call, ret>>
    /\ StoreUnchanged

SaveMonitorLog ==
    \E message \in StoreMessages :
        /\ world = "store"
        /\ Len(trade_db.monitor_logs) < MaxStoreRows
        /\ trade_db' = save_monitor_log(trade_db, message, "info")
        /\ timestamp' = [timestamp EXCEPT !.monitor_logs = Append(@, timestamp.now)]
        /\ call' = [op |-> "save_monitor_log", message |-> message]
        /\ ret' = "none"
        /\ StoreUnchanged

SaveAccountSnapshot ==
    \E equity \in StoreEquities :
        /\ world = "store"
        /\ Len(trade_db.account_snapshots) < MaxStoreRows
        /\ trade_db' = save_account_snapshot(trade_db, equity, 0, equity,
                                             equity - INITIAL_CAPITAL)
        /\ timestamp' = [timestamp EXCEPT
                            !.account_snapshots = Append(@, timestamp.now)]
        /\ call' = [op |-> "save_account_snapshot", total_equity |-> equity]
        /\ ret' = "none"
        /\ StoreUnchanged

GetAccountSnapshots ==
    \E limit \in StoreLimits, time_range \in {"all", "None"} :
        /\ world = "store"
        /\ ret' \in get_account_snapshots(trade_db, timestamp.account_snapshots,
                                          limit, time_range)
        /\ call' = [op |-> "get_account_snapshots", limit |-> limit,
                    time_range |-> time_range]
        /\ UNCHANGED <<trade_db, timestamp>>
        /\ StoreUnchanged

GetMonitorLogs ==
    \E limit \in StoreLimits :
        /\ world = "store"
        /\ ret' \in get_monitor_logs(trade_db, timestamp.monitor_logs, limit)
        /\ call' = [op |-> "get_monitor_logs", limit |-> limit]
        /\ UNCHANGED <<trade_db, timestamp>>
        /\ StoreUnchanged

StoreNext ==
    \/ Second
    \/ SaveMonitorLog
    \/ SaveAccountSnapshot
    \/ GetAccountSnapshots
    \/ GetMonitorLogs

SpecStore == StoreInit /\ [][StoreNext]_vars

\* C21: get_account_snapshots(limit=N) without time_range='all' returns the
\* N most recent account snapshots, in chronological order; with
\* time_range='all' it returns every snapshot in chronological order.
C21_SnapshotsMostRecent ==
    call.op = "get_account_snapshots" =>
        LET n == Len(trade_db.account_snapshots)
            k == IF call.time_range = "all" THEN n ELSE Min(call.limit, n)
            written == [i \in 1..k |->
                [timestamp |-> timestamp.account_snapshots[n - k + i],
                 total_equity |-> trade_db.account_snapshots[n - k + i].total_equity]]
        IN /\ Len(ret) = k
           /\ \A i, j \in 1..k : i < j => ret[i].timestamp <= ret[j].timestamp
           /\ \A row \in Range(written) \cup Range(ret) :
                 Cardinality({i \in 1..k : ret[i] = row})
                    = Cardinality({i \in 1..k : written[i] = row})

\* C22: get_monitor_logs(limit=N) returns the N most recently written log
\* entries (all of them when fewer than N exist), ordered oldest-first.
C22_RecentLogsOldestFirst ==
    call.op = "get_monitor_logs" =>
        LET n == Len(trade_db.monitor_logs)
            k == Min(call.limit, n)
        IN ret = [i \in 1..k |->
                    [timestamp |-> timestamp.monitor_logs[n - k + i],
                     message |-> trade_db.monitor_logs[n - k + i].message,
                     type |-> trade_db.monitor_logs[n - k + i].log_type]]

-----------------------------------------------------------------------------
(* A tick during which one of the store's write operations raises.  Only    *)
(* add_log catches what the store raises; save_trade and the two snapshot   *)
(* writes are called with no try around them, in monitor_task or below it.  *)
(* An operator of this section gives the monitor as the call leaves it, and *)
(* whether the call raised.                                                 *)

Faults == {"none", "save_trade", "save_account_snapshot",
           "save_position_snapshot"}

\* the write operation that raises during a tick, by world
FaultAnswers(w) == IF w = "faults" THEN Faults ELSE {"none"}

Returned(m) == [m |-> m, raised |-> FALSE]
Raised(m) == [m |-> m, raised |-> TRUE]

\* _execute_buy_with_log that undoes the fill when save_trade raises
_execute_buy_failing_RollsBack(m, symbol, price, fault) ==
    IF fault = "save_trade"
          /\ affordable_quantity(m.account, price) >= 1
          /\ buy(m.account, symbol, affordable_quantity(m.account, price), price,
                 Commission(price, affordable_quantity(m.account, price))).ok
    THEN Raised(m)
    ELSE Returned(_execute_buy_with_log(m, symbol, price))

\* _execute_buy_with_log: save_trade is called after account.buy and
\* strategy.update_position
_execute_buy_failing(m, symbol, price, fault) ==
    LET affordable_qty == affordable_quantity(m.account, price)
        commission == Commission(price, affordable_qty)
        r == buy(m.account, symbol, affordable_qty, price, commission)
    IN IF fault = "save_trade" /\ affordable_qty >= 1 /\ r.ok
       THEN Raised([m EXCEPT
                !.account = r.acct,
                !.strategy = update_position(m.strategy, symbol, affordable_qty)])
       ELSE Returned(_execute_buy_with_log(m, symbol, price))

\* _execute_sell_with_log: save_trade is called after account.sell and
\* strategy.update_position
_execute_sell_failing(m, symbol, price, fault) ==
    IF fault = "save_trade" /\ symbol \in DOMAIN m.account.positions
    THEN LET quantity == m.account.positions[symbol].quantity
             r == sell(m.account, symbol, quantity, price,
                       Commission(price, quantity))
         IN IF r.ok
            THEN Raised([m EXCEPT
                     !.account = r.acct,
                     !.strategy = update_position(m.strategy, symbol, 0)])
            ELSE Returned(_execute_sell_with_log(m, symbol, price))
    ELSE Returned(_execute_sell_with_log(m, symbol, price))

_monitor_symbol_failing(m, symbol, current_price, fault) ==
    IF current_price = None \/ symbol \notin DOMAIN m.strategy.conditions
    THEN Returned(_monitor_symbol(m, symbol, current_price))
    ELSE IF check_entry_signal(m.strategy, symbol, current_price) = "BUY"
    THEN _execute_buy_failing(m, symbol, current_price, fault)
    ELSE IF check_exit_signal(m.strategy, symbol, current_price) = "SELL"
    THEN _execute_sell_failing(m, symbol, current_price, fault)
    ELSE Returned(_monitor_symbol(m, symbol, current_price))

\* the loop over symbols, left by the first call that raises
RECURSIVE monitor_symbols_failing(_, _, _, _, _)
monitor_symbols_failing(m, symbols, i, quotes, fault) ==
    IF i > Len(symbols) THEN Returned(m)
    ELSE LET r == _monitor_symbol_failing(m, symbols[i], quotes[symbols[i]], fault)
         IN IF r.raised THEN r
            ELSE monitor_symbols_failing(r.m, symbols, i + 1, quotes, fault)

\* _print_summary: save_account_snapshot first, then one
\* save_position_snapshot per position
_print_summary_failing(m, fault) ==
    IF fault = "save_account_snapshot" THEN Raised(m)
    ELSE IF fault = "save_position_snapshot" /\ DOMAIN m.account.positions # {}
    THEN Raised([m EXCEPT !.trade_db =
             save_account_snapshot(m.trade_db, m.account.cash,
                                   total_market_value(m.account),
                                   total_equity(m.account), total_pnl(m.account))])
    ELSE Returned(_print_summary(m))

\* monitor_task that saves its snapshots before it goes through the symbols
monitor_task_failing_SnapshotFirst(m, open, strategies, quotes, prices, fault) ==
    IF ~open \/ Len(strategies) = 0
    THEN Returned(monitor_task(m, open, strategies, quotes, prices))
    ELSE LET loaded == load_strategies_from_db(m, strategies)
             symbols == get_all_symbols(loaded.strategy)
             s == _print_summary_failing(loaded, fault)
             r == monitor_symbols_failing(s.m, symbols, 1, quotes, fault)
         IN IF Len(symbols) = 0 THEN Returned(loaded)
            ELSE IF s.raised THEN s
            ELSE IF r.raised THEN r
            ELSE Returned(_update_positions(r.m, prices))

monitor_task_failing(m, open, strategies, quotes, prices, fault) ==
    IF ~open \/ Len(strategies) = 0
    THEN Returned(monitor_task(m, open, strategies, quotes, prices))
    ELSE LET loaded == load_strategies_from_db(m, strategies)
             symbols == get_all_symbols(loaded.strategy)
             r == monitor_symbols_failing(loaded, symbols, 1, quotes, fault)
         IN IF Len(symbols) = 0 THEN Returned(loaded)
            ELSE IF r.raised THEN r
            ELSE _print_summary_failing(_update_positions(r.m, prices), fault)

FaultsInit == world = "faults" /\ MonitorInit

\* one execution of monitor_task; what raises out of it is caught by its
\* caller, the scheduler's executor or the trigger endpoint
FaultyTick ==
    /\ world \in {"faults", "sizing"}
    /\ ticks < MaxTicks
    /\ \E fault \in FaultAnswers(world), open \in BOOLEAN :
         LET Done(r, strategies, quotes, prices) ==
                 /\ account' = r.m.account
                 /\ strategy' = r.m.strategy
                 /\ trade_db' = r.m.trade_db
                 /\ ret' = IF r.raised THEN "raised" ELSE "returned"
                 /\ call' = [op |-> "monitor_task", fault |-> fault,
                             open |-> open, strategies |-> strategies,
                             quotes |-> quotes, prices |-> prices]
         IN IF ~open
            THEN Done(monitor_task_failing(M, FALSE, <<>>, <<>>, <<>>, fault),
                      <<>>, <<>>, <<>>)
            ELSE \E strategies \in StrategyAnswers(world) :
                 IF Len(strategies) = 0
                 THEN Done(monitor_task_failing(M, TRUE, strategies, <<>>, <<>>,
                                                fault), strategies, <<>>, <<>>)
                 ELSE \E quotes \in Quotations(world, account,
                                               {st.symbol : st \in Range(strategies)}) :
                      LET to_mark == account_to_mark(M, TRUE, strategies, quotes)
                      IN \E prices \in Quotations(world, to_mark,
                                                  DOMAIN to_mark.positions) :
                           Done(monitor_task_failing(M, TRUE, strategies, quotes,
                                                     prices, fault),
                                strategies, quotes, prices)
    /\ ticks' = ticks + 1
    /\ UNCHANGED <<restores, world, logged>>
    /\ LifecycleUnchanged

FaultsNext == FaultyTick

SpecFaults == FaultsInit /\ [][FaultsNext]_vars

\* the tick entered its loop over the symbols
TickRan(c) == c.op = "monitor_task" /\ c.open /\ Len(c.strategies) > 0

\* C23: a write of the store that fails inside a tick (save_trade,
\* save_account_snapshot or save_position_snapshot raising) is caught and
\* logged: monitor_task returns normally, every symbol of the tick still gets
\* its log entry and the account snapshot of the tick is still attempted.
C23_WriteFailureIsolated ==
    [][TickRan(call') =>
         /\ ret' = "returned"
         /\ Len(trade_db'.monitor_logs)
               >= Len(trade_db.monitor_logs) + Len(call'.strategies)
         /\ call'.fault # "save_account_snapshot" =>
               Len(trade_db'.account_snapshots)
                  = Len(trade_db.account_snapshots) + 1]_vars

\* C24: when a fill succeeds in the ledger and the save_trade that follows
\* fails, the fill is not rolled back: the ledger keeps the trade, its cash
\* and its position, the condition of the symbol has the quantity the fill
\* left, and the persisted trade log does not contain the trade.
C24_FillKeptWithoutRow ==
    [][(TickRan(call') /\ call'.fault = "save_trade" /\ ret' = "raised") =>
         LET fill == account'.trades[Len(account'.trades)]
             held == HeldQuantity(account, fill.symbol)
         IN /\ Len(account'.trades) = Len(account.trades) + 1
            /\ trade_db'.trades = trade_db.trades
            /\ IF fill.action = "BUY"
               THEN /\ account'.cash = account.cash
                          - ((fill.quantity * fill.price) + fill.commission)
                    /\ HeldQuantity(account', fill.symbol) = held + fill.quantity
               ELSE /\ account'.cash = account.cash
                          + ((fill.quantity * fill.price) - fill.commission)
                    /\ HeldQuantity(account', fill.symbol) = held - fill.quantity
            /\ strategy'.conditions[fill.symbol].quantity
                  = HeldQuantity(account', fill.symbol)]_vars

\* a sale kept by the ledger and missing from the trades table, after a
\* purchase that was persisted
C24_Witness ==
    /\ TickRan(call)
    /\ call.fault = "save_trade"
    /\ ret = "raised"
    /\ Len(trade_db.trades) = 1
    /\ Len(account.trades) = 2
    /\ account.trades[2].action = "SELL"
    /\ strategy.conditions[account.trades[2].symbol].quantity = 0

-----------------------------------------------------------------------------
(* Fills and rows of the trades table, ticks and restarts following one     *)
(* another and no write of the store failing                                *)

SameTrade(fill, row) ==
    /\ fill.symbol = row.symbol
    /\ fill.action = row.action
    /\ fill.quantity = row.quantity
    /\ fill.price = row.price
    /\ fill.commission = row.commission

\* C25: every fill the account has made since it was constructed has its row
\* in the trades table, with the same symbol, action, quantity, price and
\* commission, the rows in the order of the fills; a tick adds as many rows
\* as it made fills, so a rejected buy or sell adds none.
C25_FillsArePersisted ==
    /\ [](LET k == Len(account.trades)
              n == Len(trade_db.trades)
          IN /\ k <= n
             /\ \A i \in 1..k :
                   SameTrade(account.trades[i], trade_db.trades[n - k + i]))
    /\ [][call'.op = "monitor_task" =>
            Len(trade_db'.trades) - Len(trade_db.trades)
               = Len(account'.trades) - Len(account.trades)]_vars

\* a tick that was refused the purchase of one symbol, after the fill of
\* another
C25_Witness ==
    /\ call.op = "monitor_task"
    /\ Len(account.trades) = 1
    /\ Len(trade_db.trades) = 1
    /\ trade_db.monitor_logs[Len(trade_db.monitor_logs)].message.event = "buy failed"
    /\ trade_db.monitor_logs[Len(trade_db.monitor_logs)].message.symbol
          # account.trades[1].symbol

-----------------------------------------------------------------------------
(* Ticks that return before the loop over the symbols *)

\* C26: a tick that finds the market closed, or that gets no strategy from
\* the Strategy Source, returns early: the account (cash, positions and the
\* prices they were last marked at) and the conditions are as before, no row
\* is added to trades, account_snapshots or position_snapshots, and exactly
\* one entry is added to monitor_logs.
C26_EarlyReturnTick ==
    [][(call'.op = "monitor_task"
          /\ (IF call'.open THEN Len(call'.strategies) = 0 ELSE TRUE)) =>
         /\ ret' = "returned"
         /\ account' = account
         /\ strategy' = strategy
         /\ trade_db'.trades = trade_db.trades
         /\ trade_db'.account_snapshots = trade_db.account_snapshots
         /\ trade_db'.position_snapshots = trade_db.position_snapshots
         /\ Len(trade_db'.monitor_logs) = Len(trade_db.monitor_logs) + 1
         /\ IsPrefix(trade_db.monitor_logs, trade_db'.monitor_logs)
         /\ LastLog(trade_db').event
               = (IF call'.open THEN "no plans" ELSE "market closed")]_vars

\* no strategy came back while the account held a position and the engine
\* had conditions
C26_Witness ==
    /\ call.op = "monitor_task"
    /\ call.open
    /\ Len(call.strategies) = 0
    /\ LastLog(trade_db).event = "no plans"
    /\ DOMAIN account.positions # {}
    /\ DOMAIN strategy.conditions # {}

-----------------------------------------------------------------------------
(* Ticks in which the Quote Source has no quote for a symbol *)

\* the rows a step added to a table
Added(before, after) == {after[i] : i \in (Len(before) + 1)..Len(after)}

\* C27: when the Quote Source has no quote for a symbol during a tick, the
\* symbol gets an error log entry, no trade is made for it, its position
\* (quantity and average price) is as before and its condition is the one
\* the tick loaded; every other symbol of the refreshed set gets its log
\* entry in the same tick.
C27_MissingQuoteSkipsSymbol ==
    [][(TickRan(call') /\ call'.fault = "none") =>
         LET symbols == {st.symbol : st \in Range(call'.strategies)}
             logs == Added(trade_db.monitor_logs, trade_db'.monitor_logs)
             rows == Added(trade_db.trades, trade_db'.trades)
             loaded == load_strategies_from_db(M, call'.strategies).strategy
         IN \A s \in symbols :
              IF call'.quotes[s] = None
              THEN /\ \E l \in logs : /\ l.log_type = "error"
                                      /\ l.message.symbol = s
                                      /\ l.message.event = "no price"
                   /\ \A t \in rows : t.symbol # s
                   /\ HeldQuantity(account', s) = HeldQuantity(account, s)
                   /\ s \in DOMAIN account.positions =>
                         account'.positions[s].avg_price
                            = account.positions[s].avg_price
                   /\ strategy'.conditions[s] = loaded.conditions[s]
              ELSE \E l \in logs : /\ l.message.symbol = s
                                     /\ l.message.event # "no price"]_vars

\* no quote for the first symbol of a tick that bought the second
C27_Witness ==
    /\ TickRan(call)
    /\ call.fault = "none"
    /\ Len(call.strategies) = 2
    /\ call.quotes[call.strategies[1].symbol] = None
    /\ Len(trade_db.trades) = 1
    /\ trade_db.trades[1].symbol = call.strategies[2].symbol
    /\ ticks = 1

-----------------------------------------------------------------------------
(* Purchases, ticks, reloads and restarts following one another *)

\* C28: a tick never buys a symbol the account already holds: every BUY row
\* a tick adds is for a symbol without a position before the tick, and the
\* position after the tick is the quantity bought.
C28_NoPyramiding ==
    [][call'.op = "monitor_task" =>
         \A t \in Added(trade_db.trades, trade_db'.trades) :
            t.action = "BUY" =>
               /\ t.symbol \notin DOMAIN account.positions
               /\ HeldQuantity(account', t.symbol) = t.quantity]_vars

\* after a restart, a tick that bought one symbol and left alone the one held
C28_Witness ==
    /\ call.op = "monitor_task"
    /\ restores > 0
    /\ Len(trade_db.trades) = 2
    /\ trade_db.trades[1].action = "BUY"
    /\ trade_db.trades[2].action = "BUY"
    /\ trade_db.trades[1].symbol # trade_db.trades[2].symbol
    /\ HeldQuantity(account, trade_db.trades[1].symbol) = trade_db.trades[1].quantity
    /\ HeldQuantity(account, trade_db.trades[2].symbol) = trade_db.trades[2].quantity

-----------------------------------------------------------------------------
(* Reloads of the conditions of an account that holds positions *)

\* C29: after load_strategies_from_db has replaced the conditions with a
\* non-empty list of strategies, there is one condition per strategy, and
\* the condition of every symbol the account holds has the quantity of the
\* account's position, not 0.
C29_ReloadKeepsHeldQuantity ==
    [][(call'.op = "load_strategies_from_db" /\ ret' > 0) =>
         /\ Len(strategy'.keys) = ret'
         /\ \A s \in DOMAIN strategy'.conditions :
               s \in DOMAIN account.positions =>
                  /\ strategy'.conditions[s].quantity = account.positions[s].quantity
                  /\ strategy'.conditions[s].quantity > 0]_vars

\* a reload right after a restart: the engine had no condition, the account
\* holds one of the two symbols loaded
C29_Witness ==
    /\ call.op = "load_strategies_from_db"
    /\ ret = 2
    /\ restores > 0
    /\ Cardinality(DOMAIN account.positions) = 1
    /\ \A s \in DOMAIN account.positions :
          /\ s \in DOMAIN strategy.conditions
          /\ strategy.conditions[s].quantity = account.positions[s].quantity

-----------------------------------------------------------------------------
(* The size of an order: ticks on a plan whose entry price is above a tenth *)
(* of the initial capital, listed before a plan whose position is marked    *)
(* up.  Amounts are exact multiples of 1/2000 dollar; the rounding   *)
(* of binary floating point is not part of the model.                       *)

SizingInit == world = "sizing" /\ MonitorInit

SpecSizing == SizingInit /\ [][FaultsNext]_vars

\* C30: on an entry signal for the first symbol of a tick, at price p with
\* the account's total equity e, the order size q is floor(e / (10 p)); when
\* q < 1 no buy is made and the account is as before (a warning is logged);
\* otherwise buy is called with q and the commission p q / 1000: when it
\* succeeds the fill has that quantity, price and commission and the
\* condition quantity becomes q, when it is refused no fill is made.
C30_OrderSize ==
    [][(TickRan(call') /\ call'.fault = "none") =>
         LET s == call'.strategies[1].symbol
             p == call'.quotes[s]
             loaded == load_strategies_from_db(M, call'.strategies).strategy
             e == total_equity(account)
             \* MAX_POSITION_DEN q p <= e < MAX_POSITION_DEN (q + 1) p
             q == CHOOSE n \in 0..(e \div p) :
                     /\ n * MAX_POSITION_DEN <= e \div p
                     /\ e \div p < (n + 1) * MAX_POSITION_DEN
             log == trade_db'.monitor_logs[Len(trade_db.monitor_logs) + 1]
         IN (IF p = None THEN FALSE
             ELSE check_entry_signal(loaded, s, p) = "BUY") =>
              IF q < 1
              THEN /\ log.message.event = "insufficient funds"
                   /\ log.log_type = "warning"
                   /\ \A t \in Added(account.trades, account'.trades) : t.symbol # s
                   /\ HeldQuantity(account', s) = 0
                   /\ strategy'.conditions[s].quantity = 0
              ELSE IF log.message.event = "buy"
              THEN LET fill == account.trades'[Len(account.trades) + 1]
                   IN /\ fill.symbol = s
                      /\ fill.action = "BUY"
                      /\ fill.quantity = q
                      /\ fill.price = p
                      /\ fill.commission * COMMISSION_DEN = p * q
                      /\ account'.positions[s].quantity = q
                      /\ strategy'.conditions[s].quantity = q
              ELSE /\ log.message.event = "buy failed"
                   /\ (q * p) + ((p * q) \div COMMISSION_DEN) > account.cash
                   /\ \A t \in Added(account.trades, account'.trades) : t.symbol # s
                   /\ HeldQuantity(account', s) = 0
                   /\ strategy'.conditions[s].quantity = 0]_vars

\* an order of 5 shares at 10100, sized on an equity of 589990 of which
\* 89990 is cash, after an order that came to no share
C30_Witness ==
    /\ TickRan(call)
    /\ ticks = 2
    /\ Len(account.trades) = 2
    /\ account.trades[2].symbol = "AAPL"
    /\ account.trades[2].quantity = 5
    /\ account.trades[2].price = 10100 * Dollar
    /\ strategy.conditions["AAPL"].quantity = 5
    /\ \E i \in 1..Len(trade_db.monitor_logs) :
          trade_db.monitor_logs[i].message.event = "insufficient funds"

-----------------------------------------------------------------------------
(* Exits of a tick *)

\* C31: every SELL a tick executes is of the whole quantity the ledger held
\* for the symbol; after the tick the ledger holds no position for the symbol
\* and the symbol's condition quantity is 0.
C31_ExitSellsWholePosition ==
    [][(ticks' = ticks + 1)
       => \A row \in Added(trade_db.trades, trade_db'.trades) :
             row.action = "SELL"
             => /\ row.symbol \in DOMAIN account.positions
                /\ row.quantity = account.positions[row.symbol].quantity
                /\ row.symbol \notin DOMAIN account'.positions
                /\ row.symbol \in DOMAIN strategy'.conditions
                /\ strategy'.conditions[row.symbol].quantity = 0]_vars

C31_Witness ==
    /\ call.op = "monitor_task"
    /\ Len(trade_db.trades) > 1
    /\ LastTrade(trade_db).action = "SELL"
    /\ LastTrade(trade_db).quantity > 1
    /\ LastTrade(trade_db).symbol \notin DOMAIN account.positions
    /\ strategy.conditions[LastTrade(trade_db).symbol].quantity = 0

\* the reasons _execute_sell_with_log may log
ExitReasons == {"stop-loss", "take-profit", "sell"}

\* C32: the log entry of every exit a tick executes names the band that
\* fired: stop-loss when the price was within 1% of the stop-loss,
\* take-profit when it was within 1% of the take-profit only.
C32_ReasonNamesBand ==
    [][(ticks' = ticks + 1)
       => \A l \in Added(trade_db.monitor_logs, trade_db'.monitor_logs) :
             (l.log_type = "trade" /\ l.message.event \in ExitReasons)
             => LET condition == strategy'.conditions[l.message.symbol]
                    price == l.message.price
                IN IF in_band(condition.stop_loss, price)
                   THEN l.message.event = "stop-loss"
                   ELSE in_band(condition.take_profit, price)
                        => l.message.event = "take-profit"]_vars

-----------------------------------------------------------------------------
(* The snapshots of a tick *)

\* the row _print_summary saves for the account
AccountSnapshot(acct) ==
    [cash |-> acct.cash, market_value |-> total_market_value(acct),
     total_equity |-> total_equity(acct), total_pnl |-> total_pnl(acct)]

\* the account snapshot of the tick is the one of the account as the tick
\* leaves it, and each position the tick leaves has its row, marked at the
\* price _update_positions was given
SnapshotsAfterTick ==
    LET accounts == Added(trade_db.account_snapshots, trade_db'.account_snapshots)
        positions == Added(trade_db.position_snapshots,
                           trade_db'.position_snapshots)
        held == DOMAIN account'.positions
    IN /\ Len(trade_db'.account_snapshots) = Len(trade_db.account_snapshots) + 1
       /\ \A row \in accounts :
             [cash |-> row.cash, market_value |-> row.market_value,
              total_equity |-> row.total_equity, total_pnl |-> row.total_pnl]
                = AccountSnapshot(account')
       /\ Len(trade_db'.position_snapshots)
             = Len(trade_db.position_snapshots) + Cardinality(held)
       /\ \A s \in held :
             /\ \E row \in positions :
                   /\ row.symbol = s
                   /\ row.quantity = account'.positions[s].quantity
                   /\ row.avg_price = account'.positions[s].avg_price
                   /\ row.current_price = account'.positions[s].current_price
             /\ call'.prices[s] # None
                   => account'.positions[s].current_price = call'.prices[s]

\* C33: every tick that finds the market open and loads at least one
\* strategy, and in which no write of the store raises, saves exactly one
\* account snapshot and one position snapshot per open position, after its
\* symbols were processed and its positions marked to market, so that the
\* snapshot shows the account with the trades of the tick.
C33_SnapshotAfterTrades ==
    [][(TickRan(call') /\ call'.fault = "none") => SnapshotsAfterTick]_vars

\* a tick that sold one position and kept another, marked at a new price
C33_Witness ==
    /\ TickRan(call)
    /\ call.fault = "none"
    /\ ticks = 2
    /\ Len(trade_db.trades) > 0
    /\ LastTrade(trade_db).action = "SELL"
    /\ Len(trade_db.account_snapshots) = 2
    /\ trade_db.account_snapshots[2].cash # trade_db.account_snapshots[1].cash
    /\ DOMAIN account.positions # {}

-----------------------------------------------------------------------------
(* stop() while a tick is in flight.  stop() is followed from its call of   *)
(* scheduler.shutdown() to its return: shutdown() ends the scheduler and    *)
(* its job at once and returns when the job that is running has finished;   *)
(* is_running is cleared after it.  ret tells whether a stop() is pending.  *)

ShutdownInit == world = "shutdown" /\ MonitorInit

\* stop() is called: it returns at once when the monitor is not running,
\* and is inside scheduler.shutdown() otherwise
StopCall ==
    /\ world = "shutdown"
    /\ ret # "pending"
    /\ is_running => scheduler.shutdowns < MaxStops
    /\ scheduler' = stop(Life).scheduler
    /\ ret' = IF is_running THEN "pending" ELSE "returned"
    /\ logged' = IF is_running THEN logged ELSE "Monitor is not running"
    /\ call' = [NoCall EXCEPT !.op = "stop"]
    /\ UNCHANGED <<account, strategy, trade_db, ticks, restores, world,
                   is_running, in_tick, timestamp, pc>>

\* shutdown() has waited for the running job; stop() clears is_running and
\* returns
StopReturn ==
    /\ world = "shutdown"
    /\ ret = "pending"
    /\ "scheduler" \notin in_tick
    /\ is_running' = stop(Life).is_running
    /\ ret' = "returned"
    /\ logged' = "Trading Monitor stopped"
    /\ call' = [NoCall EXCEPT !.op = "stop"]
    /\ UNCHANGED <<account, strategy, trade_db, ticks, restores, world,
                   scheduler, in_tick, timestamp, pc>>

ShutdownNext ==
    \/ Start
    \/ StopCall
    \/ StopReturn
    \/ \E t \in Threads : TickBegin(t)
    \/ \E t \in Threads : TickEnd(t)

\* a thread that is inside monitor_task gets to its end
SpecShutdown ==
    /\ ShutdownInit
    /\ [][ShutdownNext]_vars
    /\ \A t \in Threads : WF_vars(TickEnd(t))

\* the step is the scheduler's thread entering monitor_task
ScheduledTickBegins ==
    /\ "scheduler" \notin in_tick
    /\ "scheduler" \in in_tick'

\* C34: from the return of stop() to the next start() no scheduled tick
\* begins; a tick in flight when stop() is called is not interrupted: it is
\* taken out by its own last step only, and it gets there.
C34_StopHaltsFutureTicks ==
    /\ [][ScheduledTickBegins => is_running]_vars
    /\ [][\A t \in in_tick \ in_tick' :
             /\ call'.op = "monitor_task"
             /\ call'.thread = t
             /\ call'.at = "end"
             /\ IsTick(M, M')]_vars
    /\ (ret = "pending" /\ "scheduler" \in in_tick)
          ~> (/\ call.op = "monitor_task"
              /\ call.thread = "scheduler"
              /\ call.at = "end")

\* stop() was called while the scheduled tick was in flight
C34_Witness ==
    /\ ret = "pending"
    /\ "scheduler" \in in_tick
    /\ is_running
    /\ ~scheduler.running

-----------------------------------------------------------------------------
(* A failure inside _restore_positions.  The whole body is in one try; the  *)
(* statements that can raise are the read of the trades (the store) and,    *)
(* once the cash is assigned, the body of the loop over positions_data.     *)

RestoreFaults == {"none", "get_all_trades", "positions loop"}

\* the keys of positions_data in the order of the dict: the order in which
\* the symbols first appear in the replayed trades
RECURSIVE symbols_in_order(_, _, _)
symbols_in_order(trades, i, seen) ==
    IF i > Len(trades) THEN seen
    ELSE symbols_in_order(trades, i + 1,
             IF InSeq(trades[i].symbol, seen) THEN seen
             ELSE Append(seen, trades[i].symbol))

\* the symbols held after the replay, in the order of the loop that restores
\* them
restore_order(db) ==
    LET oldest_first == replayed_trades(db)
        replayed == replay(oldest_first, 1, <<>>)
    IN SelectSeq(symbols_in_order(oldest_first, 1, <<>>),
                 LAMBDA s : replayed[s].qty > 0)

\* what the except branch leaves: the account as the statements before the
\* failure made it, and the error logged
Caught(m) == [m |-> m, raised |-> FALSE, logged |-> "restore failed"]

\* _restore_positions whose except branch puts the account back as it was
\* constructed
restore_positions_failing_Resets(m, prices, fault, k) ==
    IF fault = "get_all_trades" THEN Caught(m)
    ELSE IF fault = "positions loop" /\ k <= Len(restore_order(m.trade_db))
    THEN Caught([m EXCEPT !.account = VirtualAccount(INITIAL_CAPITAL)])
    ELSE [m |-> restore_positions(m, prices), raised |-> FALSE,
          logged |-> "restored"]

\* _restore_positions in which get_all_trades raises, or the k-th pass of
\* the loop over positions_data raises before it assigns its position
restore_positions_failing(m, prices, fault, k) ==
    IF fault = "get_all_trades" THEN Caught(m)
    ELSE IF fault = "positions loop" /\ k <= Len(restore_order(m.trade_db))
    THEN LET whole == restore_positions(m, prices)
             order == restore_order(m.trade_db)
             done == {order[i] : i \in 1..(k - 1)}
         IN Caught([m EXCEPT
                !.account.cash = whole.account.cash,
                !.account.positions =
                    [s \in (DOMAIN m.account.positions) \cup done |->
                        whole.account.positions[s]],
                !.strategy.conditions =
                    [s \in DOMAIN m.strategy.conditions |->
                        IF s \in done THEN whole.strategy.conditions[s]
                        ELSE m.strategy.conditions[s]]])
    ELSE [m |-> restore_positions(m, prices), raised |-> FALSE,
          logged |-> "restored"]

RecoveryInit == world = "recovery" /\ MonitorInit

\* the process is started again and _restore_positions may fail
FailingRestart ==
    /\ world = "recovery"
    /\ restores < MaxRestores
    /\ \E fault \in RestoreFaults, k \in 1..Cardinality(Symbols) :
       \E prices \in [restored_symbols(trade_db) ->
                        UNION {QuoteAnswers(world, s) : s \in Symbols}] :
          LET r == restore_positions_failing(
                       [TradingMonitor EXCEPT !.trade_db = trade_db],
                       prices, fault, k)
          IN /\ \A s \in DOMAIN prices : prices[s] \in QuoteAnswers(world, s)
             /\ \A s \in DOMAIN r.m.account.positions :
                   Quotable(r.m.account, s, r.m.account.positions[s].current_price)
             /\ account' = r.m.account
             /\ strategy' = r.m.strategy
             /\ trade_db' = r.m.trade_db
             /\ ret' = IF r.raised THEN "raised" ELSE "constructed"
             /\ logged' = r.logged
             /\ call' = [op |-> "_restore_positions", prices |-> prices,
                         fault |-> fault, k |-> k]
    /\ restores' = restores + 1
    /\ UNCHANGED <<ticks, world>>
    /\ LifecycleUnchanged

RecoveryNext == Tick \/ FailingRestart

SpecRecovery == RecoveryInit /\ [][RecoveryNext]_vars

\* the restart met a failure: the read of the trades raised, or a pass of
\* the loop over the positions did
RestoreFailed(c) ==
    /\ c.op = "_restore_positions"
    /\ \/ c.fault = "get_all_trades"
       \/ c.fault = "positions loop" /\ c.k <= Len(restore_order(trade_db))

\* C35: a failure during _restore_positions is not fatal: __init__
\* completes, the failure is logged, and the account keeps what had been
\* rebuilt before the failure: nothing when the read of the trades failed;
\* the rebuilt cash and the positions of the symbols restored before the
\* failing one when the loop over the positions failed.
C35_RestoreFailureNotFatal ==
    [][(restores' = restores + 1 /\ RestoreFailed(call'))
       => LET constructed == [TradingMonitor EXCEPT !.trade_db = trade_db]
              whole == restore_positions(constructed, call'.prices)
              order == restore_order(trade_db)
          IN /\ ret' = "constructed"
             /\ logged' = "restore failed"
             /\ trade_db' = trade_db
             /\ IF call'.fault = "get_all_trades"
                THEN account' = constructed.account
                ELSE /\ account'.cash = whole.account.cash
                     /\ DOMAIN account'.positions
                           = {order[i] : i \in 1..(call'.k - 1)}
                     /\ \A s \in DOMAIN account'.positions :
                           account'.positions[s] = whole.account.positions[s]]_vars

\* the loop failed at the second of two positions: the first is kept
C35_Witness ==
    /\ call.op = "_restore_positions"
    /\ call.fault = "positions loop"
    /\ call.k = 2
    /\ Len(restore_order(trade_db)) = 2
    /\ Cardinality(DOMAIN account.positions) = 1
    /\ logged = "restore failed"
    /\ ret = "constructed"

-----------------------------------------------------------------------------
(* The account rebuilt at a restart against the account that made the trades *)

\* the restart of a process whose account made the trades of the log itself
FirstRestart == restores = 0 /\ restores' = 1

\* C36: the cash _restore_positions computes from the persisted trades of
\* ticks is the cash of the live account that executed those trades.
C36_RestartPreservesCash ==
    [][FirstRestart => account'.cash = account.cash]_vars

\* two accounts hold the same symbols with the same quantities and average
\* prices
SamePositions(a, b) ==
    /\ DOMAIN a.positions = DOMAIN b.positions
    /\ \A s \in DOMAIN a.positions :
          /\ a.positions[s].quantity = b.positions[s].quantity
          /\ a.positions[s].avg_price = b.positions[s].avg_price

\* C37: the positions _restore_positions rebuilds from the persisted trades
\* have the symbols, quantities and average prices of the positions of the
\* live account that executed those trades, whatever the history.
C37_RestartPreservesPositions ==
    [][FirstRestart => SamePositions(account', account)]_vars

\* the trades an account recorded, as rows of the trades table
LedgerLog(acct) ==
    [TradeDatabase EXCEPT !.trades =
        [i \in 1..Len(acct.trades) |->
            [id |-> i, symbol |-> acct.trades[i].symbol,
             action |-> acct.trades[i].action,
             quantity |-> acct.trades[i].quantity,
             price |-> acct.trades[i].price,
             commission |-> acct.trades[i].commission, notes |-> NoNotes]]]

\* the same for the short histories of direct calls of buy and sell (partial
\* sells, a symbol closed and bought again), were they the persisted log
LedgerReplayMatches ==
    world = "ledger" =>
        SamePositions(
            restore_positions(
                [TradingMonitor EXCEPT !.trade_db = LedgerLog(account)],
                [s \in Symbols |-> None]).account,
            account)

-----------------------------------------------------------------------------
(* Positions whose symbol the Strategy Source no longer returns *)

\* C38: after the refresh of a tick every symbol with an open position has
\* a condition, and the tick evaluates it: a position is not left without
\* exit monitoring when the Strategy Source stops returning its symbol.
C38_OpenPositionsMonitored ==
    [][(TickRan(call') /\ call'.fault = "none")
       => LET loaded == load_strategies_from_db(M, call'.strategies)
              logs == Added(trade_db.monitor_logs, trade_db'.monitor_logs)
          IN \A s \in DOMAIN account.positions :
                /\ s \in DOMAIN loaded.strategy.conditions
                /\ \E l \in logs : l.message.symbol = s]_vars

-----------------------------------------------------------------------------
(* Two threads inside monitor_task: the scheduler's and a request's (the    *)
(* trigger endpoint).  Nothing in monitor_task or below it takes a lock, so *)
(* the threads interleave between any two statements; the model lets them   *)
(* interleave between the steps below, each of which is a run of            *)
(* consecutive statements of monitor_task.  The monitor has been started    *)
(* and the market is open.                                                  *)

RaceInit ==
    /\ world = "race"
    /\ account = TradingMonitor.account
    /\ strategy = TradingMonitor.strategy
    /\ trade_db = TradingMonitor.trade_db
    /\ ticks = 0
    /\ restores = 0
    /\ call = NoCall
    /\ ret = "none"
    /\ logged = "none"
    /\ is_running = start(Lifecycle).is_running
    /\ scheduler = start(Lifecycle).scheduler
    /\ in_tick = {}
    /\ timestamp = Timestamps
    /\ pc = Outside

RaceUnchanged ==
    UNCHANGED <<restores, world, ret, logged, is_running, scheduler, timestamp>>

\* the thread's step, for the claims
Step(t, at) == [op |-> "monitor_task", thread |-> t, at |-> at]

\* the thread goes on with the next symbol of its loop
NextSymbol(t) == pc' = [pc EXCEPT ![t].at = "monitor", ![t].i = @ + 1]

\* the thread leaves monitor_task
Leave(t) ==
    /\ pc' = [pc EXCEPT ![t] = [at |-> "outside"]]
    /\ in_tick' = in_tick \ {t}

Becomes(m) ==
    /\ account' = m.account
    /\ strategy' = m.strategy
    /\ trade_db' = m.trade_db

\* monitor_task up to the middle of load_strategies_from_db: the Strategy
\* Source has answered and existing_positions is collected
Enter(t) ==
    /\ world = "race"
    /\ pc[t].at = "outside"
    /\ ticks < MaxTicks
    /\ \E strategies \in StrategyAnswers(world) :
         IF Len(strategies) = 0
         THEN /\ Becomes(monitor_task(M, TRUE, strategies, <<>>, <<>>))
              /\ UNCHANGED <<pc, in_tick>>
         ELSE LET held == {s \in DOMAIN strategy.conditions :
                              strategy.conditions[s].quantity > 0}
              IN /\ pc' = [pc EXCEPT ![t] =
                              [at |-> "clear", strategies |-> strategies,
                               existing_positions |->
                                   [s \in held |-> strategy.conditions[s].quantity]]]
                 /\ in_tick' = in_tick \cup {t}
                 /\ UNCHANGED <<account, strategy, trade_db>>
    /\ ticks' = ticks + 1
    /\ call' = Step(t, "enter")
    /\ RaceUnchanged

\* load_strategies_from_db: self.strategy.conditions.clear()
Clear(t) ==
    /\ world = "race"
    /\ pc[t].at = "clear"
    /\ strategy' = TradingStrategy
    /\ pc' = [pc EXCEPT ![t].at = "add"]
    /\ call' = Step(t, "clear")
    /\ UNCHANGED <<account, trade_db, ticks, in_tick>>
    /\ RaceUnchanged

\* load_strategies_from_db: the loop that adds the conditions
AddConditions(t) ==
    /\ world = "race"
    /\ pc[t].at = "add"
    /\ strategy' = load_conditions(strategy, account, pc[t].existing_positions,
                                   pc[t].strategies, 1)
    /\ pc' = [pc EXCEPT ![t].at = "symbols"]
    /\ call' = Step(t, "add")
    /\ UNCHANGED <<account, trade_db, ticks, in_tick>>
    /\ RaceUnchanged

\* monitor_task: symbols = self.strategy.get_all_symbols()
GetSymbols(t) ==
    /\ world = "race"
    /\ pc[t].at = "symbols"
    /\ IF Len(get_all_symbols(strategy)) = 0
       THEN Leave(t)
       ELSE /\ pc' = [pc EXCEPT ![t] =
                          [at |-> "monitor", symbols |-> get_all_symbols(strategy),
                           i |-> 1]]
            /\ UNCHANGED in_tick
    /\ call' = Step(t, "symbols")
    /\ UNCHANGED <<account, strategy, trade_db, ticks>>
    /\ RaceUnchanged

\* _monitor_symbol up to the entry signal; when the signal is not BUY, to
\* its end
MonitorSymbol(t) ==
    /\ world = "race"
    /\ pc[t].at = "monitor"
    /\ pc[t].i <= Len(pc[t].symbols)
    /\ LET symbol == pc[t].symbols[pc[t].i]
       IN \E price \in QuoteAnswers(world, symbol) :
            /\ Quotable(account, symbol, price)
            /\ IF /\ price # None
                  /\ symbol \in DOMAIN strategy.conditions
                  /\ check_entry_signal(strategy, symbol, price) = "BUY"
               THEN /\ pc' = [pc EXCEPT ![t] =
                                  [at |-> "buy", symbols |-> pc[t].symbols,
                                   i |-> pc[t].i, price |-> price]]
                    /\ UNCHANGED <<account, strategy, trade_db>>
               ELSE /\ Becomes(_monitor_symbol(M, symbol, price))
                    /\ NextSymbol(t)
    /\ call' = Step(t, "signal")
    /\ UNCHANGED <<ticks, in_tick>>
    /\ RaceUnchanged

\* _execute_buy_with_log up to self.account.buy(...)
ExecuteBuy(t) ==
    /\ world = "race"
    /\ pc[t].at = "buy"
    /\ LET symbol == pc[t].symbols[pc[t].i]
           price == pc[t].price
           affordable_qty == affordable_quantity(account, price)
           commission == Commission(price, affordable_qty)
           r == buy(account, symbol, affordable_qty, price, commission)
       IN IF affordable_qty < 1
          THEN /\ Becomes(add_log(M, Message("insufficient funds", symbol, price, 0),
                                  "warning"))
               /\ pc' = [pc EXCEPT ![t] =
                             [at |-> "monitor", symbols |-> pc[t].symbols,
                              i |-> pc[t].i + 1]]
          ELSE IF r.ok
          THEN /\ account' = r.acct
               /\ pc' = [pc EXCEPT ![t] =
                             [at |-> "bought", symbols |-> pc[t].symbols,
                              i |-> pc[t].i, price |-> price,
                              affordable_qty |-> affordable_qty]]
               /\ UNCHANGED <<strategy, trade_db>>
          ELSE /\ Becomes(add_log(M, Message("buy failed", symbol, price, 0),
                                  "error"))
               /\ pc' = [pc EXCEPT ![t] =
                             [at |-> "monitor", symbols |-> pc[t].symbols,
                              i |-> pc[t].i + 1]]
    /\ call' = Step(t, "buy")
    /\ UNCHANGED <<ticks, in_tick>>
    /\ RaceUnchanged

\* _execute_buy_with_log after a successful buy: update_position,
\* save_trade, add_log
RecordBuy(t) ==
    /\ world = "race"
    /\ pc[t].at = "bought"
    /\ LET symbol == pc[t].symbols[pc[t].i]
           price == pc[t].price
           affordable_qty == pc[t].affordable_qty
       IN Becomes(add_log(
              [M EXCEPT
                  !.strategy = update_position(strategy, symbol, affordable_qty),
                  !.trade_db = save_trade(trade_db, symbol, "BUY", affordable_qty,
                                          price, Commission(price, affordable_qty),
                                          NoNotes)],
              Message("buy", symbol, price, affordable_qty), "trade"))
    /\ pc' = [pc EXCEPT ![t] = [at |-> "monitor", symbols |-> pc[t].symbols,
                                i |-> pc[t].i + 1]]
    /\ call' = Step(t, "record")
    /\ UNCHANGED <<ticks, in_tick>>
    /\ RaceUnchanged

\* monitor_task after its loop: _update_positions, _print_summary
Summary(t) ==
    /\ world = "race"
    /\ pc[t].at = "monitor"
    /\ pc[t].i > Len(pc[t].symbols)
    /\ \E prices \in Quotations(world, account, DOMAIN account.positions) :
          Becomes(_print_summary(_update_positions(M, prices)))
    /\ Leave(t)
    /\ call' = Step(t, "summary")
    /\ UNCHANGED ticks
    /\ RaceUnchanged

Steps(t) ==
    \/ Clear(t)
    \/ AddConditions(t)
    \/ GetSymbols(t)
    \/ MonitorSymbol(t)
    \/ ExecuteBuy(t)
    \/ RecordBuy(t)
    \/ Summary(t)

RaceNext == \E t \in Threads : Enter(t) \/ Steps(t)

SpecRace == RaceInit /\ [][RaceNext]_vars

\* the same two threads behind a lock around monitor_task, which the
\* program does not have
SerializedNext == \E t \in Threads : (in_tick = {} /\ Enter(t)) \/ Steps(t)

SpecSerialized == RaceInit /\ [][SerializedNext]_vars

\* the fills a step made in the account
Fills(before, after) ==
    {after.trades[k] : k \in (Len(before.trades) + 1)..Len(after.trades)}

\* C39: when a manual trigger overlaps a scheduled tick, no interleaving of
\* their steps makes a BUY for a symbol whose position is already open, and
\* when both ticks have finished every condition's quantity is the quantity
\* of the symbol's position.
C39_OverlapBuysOnce ==
    /\ [][\A fill \in Fills(account, account') :
             fill.action = "BUY" => fill.symbol \notin DOMAIN account.positions]_vars
    /\ [](in_tick = {} =>
             \A s \in DOMAIN strategy.conditions :
                 strategy.conditions[s].quantity = HeldQuantity(account, s))

-----------------------------------------------------------------------------
(* The trades of one tick *)

\* C40: a tick executes at most one trade per symbol: a symbol bought in the
\* tick is not sold in it, and a symbol sold in the tick is not bought again
\* in it.
C40_OneTradePerSymbolPerTick ==
    [][(ticks' = ticks + 1)
       => /\ \A f, g \in Fills(account, account') : f.symbol = g.symbol => f = g
          /\ \A r, q \in Added(trade_db.trades, trade_db'.trades) :
                r.symbol = q.symbol => r = q]_vars

\* AAPL was bought at a price that is also inside its stop-loss band, and
\* is held when the tick ends
C40_Witness ==
    /\ call.op = "monitor_task"
    /\ Len(account.trades) > 0
    /\ account.trades[Len(account.trades)].action = "BUY"
    /\ account.trades[Len(account.trades)].symbol = "AAPL"
    /\ "AAPL" \in DOMAIN account.positions
    /\ "AAPL" \in DOMAIN strategy.conditions
    /\ exit_trigger(strategy, "AAPL", account.trades[Len(account.trades)].price)
          = "STOP LOSS"

=============================================================================
